---- MODULE Spec2Model ----
(***************************************************************************)
(* A model of the pyffi NIF optimizer: the unique-index scan of            *)
(* optimizeTriBasedGeom, the MOPP bytecode writer/reader of                *)
(* bhkMoppBvTreeShape, the block replacement of testRoot and the           *)
(* merge-duplicates / optimize-geometry spells.                            *)
(*                                                                         *)
(* Python lists are 0-based; the sequences below are 1-based, so the       *)
(* Python element x[i] is x[i+1] here.  Index VALUES stored in the lists   *)
(* (new vertex indices, byte offsets, triangle indices) are kept 0-based   *)
(* exactly as the program stores them.                                     *)
(***************************************************************************)
EXTENDS Integers, Sequences, FiniteSets, TLC

VARIABLES
    pc,             \* position of the running operation
    hashes,         \* the keys yielded by getVertexHashGenerator()
    pos,            \* loop variable i of the scan
    v_map,          \* old index -> new index
    v_map_inverse,  \* new index -> old index
    k_map,          \* hash -> new index
    index,          \* new vertex index for the next vertex
    moppData,       \* bhkMoppBvTreeShape.moppData, the bytecode
    moppDataSize,   \* bhkMoppBvTreeShape.moppDataSize
    numtriangles,   \* len(self.shape.data.triangles)
    qmax,           \* <<maxx, maxy, maxz>> of updateMopp
    parsed,         \* what the last parseMopp call gave
    raised,         \* the exception the last operation ended with, or None
    blocks,         \* the blocks of the document, by handle
    roots,          \* the document's root list (testRoot has one root)
    block_list,     \* testRoot: [block for block in root.tree(unique = True)]
    bi,             \* testRoot: position of "for block in block_list"
    optimized_geometries,   \* testRoot: the geometries already optimized
    replaced,       \* the last replacement: old block, new block, blocks before
    header,         \* whether the header lists the block types of the file
    sidecar,        \* whether an .egm or .tri file lies next to the file
    precisions,     \* the spell class's VERTEXPRECISION, ..., VCOLPRECISION
    used_bones,     \* SpellDelUnusedBones._used_bones
    keys,           \* optimize_keys: the keys it is given
    new_keys,       \* optimize_keys: the keys it returns
    spell,          \* SPELLNAME of the spell that is cast
    stack,          \* the branches the recursion has yet to visit
    visited,        \* the branches the spell has visited, in order
    branches,       \* SpellMergeDuplicates.branches
    optimized,      \* SpellOptimizeGeometry.optimized
    changed,        \* spell.changed
    run,            \* how many times the spell has been cast on the document
    input           \* the document as it was when the cast began

mapVars == <<hashes, pos, v_map, v_map_inverse, k_map, index>>

moppVars == <<moppData, moppDataSize, numtriangles, qmax, parsed>>

spellVars == <<header, sidecar, precisions, used_bones, keys, new_keys, spell,
               stack, visited, branches, optimized, changed, run, input>>

graphVars == <<blocks, roots, block_list, bi, optimized_geometries, replaced>>

vars == <<pc, hashes, pos, v_map, v_map_inverse, k_map, index,
          moppData, moppDataSize, numtriangles, qmax, parsed, raised,
          blocks, roots, block_list, bi, optimized_geometries, replaced,
          header, sidecar, precisions, used_bones, keys, new_keys, spell,
          stack, visited, branches, optimized, changed, run, input>>

None == "None"

\* no exception
NoError == [type |-> "None", msg |-> ""]

\* parseMopp has not been called
NotParsed ==
    [status |-> "none", ids |-> <<>>, tris |-> <<>>, printed |-> <<>>,
     depth |-> 0, code |-> -1]

(***************************************************************************)
(* Bounds of the model.                                                    *)
(***************************************************************************)
MaxLen == 4
NumKeys == 3

Keys == 1..NumKeys

\* all sequences over S of length at most n
SeqUpTo(S, n) == UNION {[1..k -> S] : k \in 0..n}

\* the state of the parts of the program a specification leaves alone
IdleMap ==
    /\ hashes = <<>>
    /\ pos = 0
    /\ v_map = <<>>
    /\ v_map_inverse = <<>>
    /\ k_map = <<>>
    /\ index = 0

IdleMopp ==
    /\ moppData = <<>>
    /\ moppDataSize = 0
    /\ numtriangles = 0
    /\ qmax = <<0, 0, 0>>
    /\ parsed = NotParsed

\* no replacement has happened
NotReplaced == [old |-> 0, new |-> 0, before |-> <<>>]

IdleGraph ==
    /\ blocks = <<>>
    /\ roots = <<>>
    /\ block_list = <<>>
    /\ bi = 0
    /\ optimized_geometries = <<>>
    /\ replaced = NotReplaced

\* the spell parameters of class SpellOptimizeGeometry
ClassPrecisions ==
    [VERTEXPRECISION |-> 3, NORMALPRECISION |-> 3, UVPRECISION |-> 5,
     VCOLPRECISION |-> 3]

\* no document
NoInput == [blocks |-> <<>>, roots |-> <<>>]

IdleSpell ==
    /\ header = "types"
    /\ sidecar = FALSE
    /\ precisions = ClassPrecisions
    /\ used_bones = {}
    /\ keys = <<>>
    /\ new_keys = <<>>
    /\ spell = "none"
    /\ stack = <<>>
    /\ visited = <<>>
    /\ branches = <<>>
    /\ optimized = <<>>
    /\ changed = FALSE
    /\ run = 0
    /\ input = NoInput

(***************************************************************************)
(* The unique-index scan (optimizeTriBasedGeom, "removing duplicate        *)
(* vertices").                                                             *)
(***************************************************************************)

\* v_map = [0 for i in xrange(data.numVertices)] etc.
ScanStart(n) ==
    [v_map |-> [i \in 1..n |-> 0],
     v_map_inverse |-> <<>>,
     k_map |-> <<>>,
     index |-> 0]

\* a plausible slip: an existing vertex gets the next free index
ScanBodyNextIndex(m, i, vhash) ==
    IF vhash \in DOMAIN m.k_map
    THEN [m EXCEPT !.v_map[i + 1] = m.index]
    ELSE [v_map |-> [m.v_map EXCEPT ![i + 1] = m.index],
          v_map_inverse |-> Append(m.v_map_inverse, i),
          k_map |-> (vhash :> m.index) @@ m.k_map,
          index |-> m.index + 1]

\* a plausible slip: a later occurrence takes over as the representative
ScanBodyLastWins(m, i, vhash) ==
    IF vhash \in DOMAIN m.k_map
    THEN [m EXCEPT !.v_map[i + 1] = m.k_map[vhash],
                   !.v_map_inverse[m.k_map[vhash] + 1] = i]
    ELSE [v_map |-> [m.v_map EXCEPT ![i + 1] = m.index],
          v_map_inverse |-> Append(m.v_map_inverse, i),
          k_map |-> (vhash :> m.index) @@ m.k_map,
          index |-> m.index + 1]

\* the body of "for i, vhash in enumerate(...)": try k_map[vhash] ...
ScanBody(m, i, vhash) ==
    IF vhash \in DOMAIN m.k_map
    THEN \* vertex already exists
         [m EXCEPT !.v_map[i + 1] = m.k_map[vhash]]
    ELSE \* vertex is new
         [v_map |-> [m.v_map EXCEPT ![i + 1] = m.index],
          v_map_inverse |-> Append(m.v_map_inverse, i),
          k_map |-> (vhash :> m.index) @@ m.k_map,
          index |-> m.index + 1]

RECURSIVE ScanFrom(_, _, _)
ScanFrom(m, i, hs) ==
    IF i >= Len(hs) THEN m ELSE ScanFrom(ScanBody(m, i, hs[i + 1]), i + 1, hs)

\* the whole scan: (v_map, v_map_inverse) for a sequence of hashes
UniqueMap(hs) == ScanFrom(ScanStart(Len(hs)), 0, hs)

InitMap ==
    /\ hashes \in SeqUpTo(Keys, MaxLen)
    /\ pc = "scan"
    /\ pos = 0
    /\ v_map = ScanStart(Len(hashes)).v_map
    /\ v_map_inverse = <<>>
    /\ k_map = <<>>
    /\ index = 0
    /\ raised = NoError
    /\ IdleMopp
    /\ IdleGraph
    /\ IdleSpell

\* one iteration of the for loop
ScanVertex ==
    /\ pc = "scan"
    /\ pos < Len(hashes)
    /\ LET m == ScanBody([v_map |-> v_map, v_map_inverse |-> v_map_inverse,
                          k_map |-> k_map, index |-> index],
                         pos, hashes[pos + 1])
       IN /\ v_map' = m.v_map
          /\ v_map_inverse' = m.v_map_inverse
          /\ k_map' = m.k_map
          /\ index' = m.index
    /\ pos' = pos + 1
    /\ UNCHANGED <<pc, hashes, raised, moppVars, graphVars, spellVars>>

\* the loop is exhausted: del k_map; new_numvertices = index
ScanDone ==
    /\ pc = "scan"
    /\ pos = Len(hashes)
    /\ pc' = "mapped"
    /\ k_map' = <<>>
    /\ UNCHANGED <<hashes, pos, v_map, v_map_inverse, index, raised, moppVars, graphVars, spellVars>>

NextMap == ScanVertex \/ ScanDone

SpecMap == InitMap /\ [][NextMap]_vars

(***************************************************************************)
(* Claims about the unique-index scan.                                     *)
(***************************************************************************)

\* C1: index-map soundness.  When the scan has finished, every value of
\* v_map lies in [0, len(v_map_inverse)), every new index in that range is
\* the image of some old index, and v_map[v_map_inverse[k]] = k for every
\* new index k.
C1_IndexMapSound ==
    pc = "mapped" =>
        /\ Len(v_map) = Len(hashes)
        /\ index = Len(v_map_inverse)
        /\ \A i \in 1..Len(v_map) : v_map[i] \in 0..(Len(v_map_inverse) - 1)
        /\ \A k \in 0..(Len(v_map_inverse) - 1) :
              /\ \E i \in 1..Len(v_map) : v_map[i] = k
              /\ v_map_inverse[k + 1] \in 0..(Len(v_map) - 1)
              /\ v_map[v_map_inverse[k + 1] + 1] = k

\* a finished scan of a sequence in which a key repeats after a different key
C1_Witness ==
    /\ pc = "mapped"
    /\ Len(v_map_inverse) >= 2
    /\ Len(v_map_inverse) < Len(hashes)
    /\ v_map[Len(v_map)] < Len(v_map_inverse) - 1

\* C2: first-seen-wins.  Two old indices get the same new index exactly
\* when their keys are equal, the representative of a new index is the
\* smallest old index carrying its key, and v_map_inverse is strictly
\* increasing (new indices are handed out in order of first occurrence).
C2_FirstSeenWins ==
    pc = "mapped" =>
        /\ \A i, j \in 1..Len(hashes) :
              (v_map[i] = v_map[j]) <=> (hashes[i] = hashes[j])
        /\ \A k \in 1..Len(v_map_inverse) :
              /\ \A i \in 1..Len(hashes) :
                    hashes[i] = hashes[v_map_inverse[k] + 1]
                        => v_map_inverse[k] <= i - 1
              /\ k > 1 => v_map_inverse[k - 1] < v_map_inverse[k]

\* a finished scan where the first key occurs again after a second key
C2_Witness ==
    /\ pc = "mapped"
    /\ Len(hashes) >= 3
    /\ hashes[1] # hashes[2]
    /\ hashes[3] = hashes[1]
    /\ v_map[3] = 0
    /\ v_map_inverse[1] = 0

(***************************************************************************)
(* The MOPP codec (bhkMoppBvTreeShape.updateMopp / parseMopp).             *)
(* Bytes are written in decimal; the source's hexadecimal is in comments.  *)
(***************************************************************************)

BOUNDX == 38    \* 0x26
BOUNDY == 39    \* 0x27
BOUNDZ == 40    \* 0x28
TESTZ == 18     \* 0x12
TriCompactFirst == 48   \* 0x30, "i = 0x30"
TriCompactEnd == 80     \* 0x50, "if i == 0x50"
IncOffsetByte == 9      \* 0x09
CompactRange == 32      \* 0x20, the operand of the emitted 0x09

\* a plausible slip: the compact range is taken to end one opcode later
TreeStepLateWrap(maxz, s) ==
    LET m1 == s.mopp \o <<TESTZ, maxz, 0, 1, s.i>>
    IN IF s.i + 1 = TriCompactEnd + 1
       THEN [t |-> s.t + 1, i |-> TriCompactFirst,
             mopp |-> m1 \o <<IncOffsetByte, CompactRange>>]
       ELSE [t |-> s.t + 1, i |-> s.i + 1, mopp |-> m1]

\* the body of "for t in xrange(numtriangles-1)" on the loop state
\* s = [t, i, mopp]
TreeStep(maxz, s) ==
    LET m1 == s.mopp \o <<TESTZ, maxz, 0, 1, s.i>>
    IN IF s.i + 1 = TriCompactEnd
       THEN \* increment triangle offset
            [t |-> s.t + 1, i |-> TriCompactFirst,
             mopp |-> m1 \o <<IncOffsetByte, CompactRange>>]
       ELSE [t |-> s.t + 1, i |-> s.i + 1, mopp |-> m1]

\* an iteration of the loop, if t is still in xrange(n - 1)
TreePass(n, maxz, s) == IF s.t >= n - 1 THEN s ELSE TreeStep(maxz, s)

\* four iterations
TreePasses(n, maxz, s) ==
    TreePass(n, maxz, TreePass(n, maxz, TreePass(n, maxz, TreePass(n, maxz, s))))

\* the loop run to its end (several iterations per unfolding, which keeps
\* the evaluation shallow for many triangles)
RECURSIVE TreeRun(_, _, _)
TreeRun(n, maxz, s) ==
    IF s.t >= n - 1 THEN s
    ELSE TreeRun(n, maxz, TreePasses(n, maxz, TreePasses(n, maxz, s)))

\* "add a trivial tree": the loop from i = 0x30 on, then mopp.extend([i])
TrivialTree(n, maxz, mopp) ==
    LET s == TreeRun(n, maxz, [t |-> 0, i |-> TriCompactFirst, mopp |-> mopp])
    IN Append(s.mopp, s.i)

\* the mopp 'assembly' script of updateMopp for the quantized bounds q
MoppScript(q, n) ==
    TrivialTree(n, q[3],
                <<BOUNDZ, 0, q[3]>> \o <<BOUNDY, 0, q[2]>> \o <<BOUNDX, 0, q[1]>>)

\* a plausible slip: the upper range check off by one
MoppBoundsErrorLoose(q) ==
    IF q[1] < 0 \/ q[2] < 0 \/ q[3] < 0
    THEN [type |-> "ValueError",
          msg |-> "cannot update mopp tree with invalid origin"]
    ELSE IF q[1] > 256 \/ q[2] > 256 \/ q[3] > 256
    THEN [type |-> "ValueError",
          msg |-> "cannot update mopp tree with invalid scale"]
    ELSE NoError

\* the two range checks of updateMopp; None when both pass
MoppBoundsError(q) ==
    IF q[1] < 0 \/ q[2] < 0 \/ q[3] < 0
    THEN [type |-> "ValueError",
          msg |-> "cannot update mopp tree with invalid origin"]
    ELSE IF q[1] > 255 \/ q[2] > 255 \/ q[3] > 255
    THEN [type |-> "ValueError",
          msg |-> "cannot update mopp tree with invalid scale"]
    ELSE NoError

(***************************************************************************)
(* parseMopp.  A result is a record: status "ok" with the returned         *)
(* (ids, tris), or the exception that ended the call.  printed lists the   *)
(* byte offsets written by the "%4i:" print at the top of the loop, in     *)
(* order; depth is the deepest recursion level entered.                    *)
(***************************************************************************)

Branch2Codes == {16, 17, 18, 19, 20, 21, 22, 23, 24, 25, 26, 28}
    \* 0x10..0x1A, 0x1C
Branch1Codes == {32, 33, 34}        \* 0x20, 0x21, 0x22
BranchShortCodes == {35, 36, 37}    \* 0x23, 0x24, 0x25
BoundCodes == {38, 39, 40}          \* 0x26, 0x27, 0x28
BoundXYZCodes == {1, 2, 3, 4}       \* 0x01..0x04
CompactCodes == 48..79              \* xrange(0x30, 0x50)

Recognized(code) ==
    code \in {9, 10, 11, 80, 81, 83, 5, 6}
             \cup CompactCodes \cup Branch2Codes \cup Branch1Codes
             \cup BranchShortCodes \cup BoundCodes \cup BoundXYZCodes

Max(a, b) == IF a >= b THEN a ELSE b

\* i, i+1, ..., i+k-1
Run(i, k) == [j \in 1..k |-> i + j - 1]

\* The recursion of parseMopp is unfolded into steps over a decoder state
\* st: the locals i, depth, toffset of the running call, the ids, tris and
\* printed offsets gathered so far, and calls, the stack of
\* parseMopp(start, depth, toffset) calls still to be made.  A branch opcode
\* decodes its "if" side at once and leaves its "else" side on calls; the
\* branch returns as soon as both sides have returned (ret = True), so the
\* ids and tris of the whole call are those of the sub-decodes in the order
\* they run.  status is "run" while decoding, "ok" once the outermost call
\* has returned, or the exception that ended everything.
ParseStart(start, depth, toffset) ==
    [status |-> "run", i |-> start, depth |-> depth, toffset |-> toffset,
     ids |-> <<>>, tris |-> <<>>, printed |-> <<>>, calls |-> <<>>,
     deepest |-> depth, code |-> -1]

\* mopp[j] with j past the end of the array
IndexError(st) ==
    [st EXCEPT !.status = "IndexError", !.ids = <<>>, !.tris = <<>>]

\* a plausible slip: an unknown opcode ends the decode like a leaf
UnknownOpcodeReturns(st, code) ==
    [st EXCEPT !.status = "ok"]

\* the final else of the opcode chain: raise ValueError("unknown mopp opcode")
UnknownOpcode(st, code) ==
    [st EXCEPT !.status = "ValueError", !.code = code,
               !.ids = <<>>, !.tris = <<>>]

\* the running parseMopp call returns: "while i < size and not ret" ended
ParseReturn(st) ==
    IF st.calls = <<>>
    THEN [st EXCEPT !.status = "ok"]
    ELSE LET c == st.calls[Len(st.calls)]
         IN [st EXCEPT !.i = c.start, !.depth = c.depth,
                       !.toffset = c.toffset,
                       !.calls = SubSeq(st.calls, 1, Len(st.calls) - 1),
                       !.deepest = Max(st.deepest, c.depth)]

\* a plausible slip: the 1-/2-byte increment replaces the accumulator
IncrementOffsetReplaces(toffset, operand) == operand

\* toffset += operand (opcodes 0x09 and 0x0A)
IncrementOffset(toffset, operand) == toffset + operand

\* a plausible slip: a leaf reports its bare value
LeafTriangleNoOffset(value, toffset) == value

\* tris.append(value + toffset) of the leaf opcodes
LeafTriangle(value, toffset) == value + toffset

\* a plausible slip: the "else" side decodes the same bytes as the "if" side
BranchElseIsThen(after, displacement) == after

\* a plausible slip: the displacement is counted from the opcode's operands
\* rather than from the byte after the instruction
BranchElseFromOperands(after, displacement) == after - 2 + displacement - 1

\* start of the second sub-decode of a branch with a 1-byte displacement
\* whose operands end at after: start=i+4+mopp[i+3], start=i+3+mopp[i+2]
BranchElse(after, displacement) == after + displacement

\* start of either sub-decode of a branch with 2-byte displacements:
\* jump = mopp[i+3]*256 + mopp[i+4] (resp. i+5, i+6), start=i+7+jump
ShortBranchStart(after, hi, lo) == after + hi * 256 + lo

\* one pass of the while loop of parseMopp
ParseStep(mopp, size, st) ==
    IF ~(st.i < size)
    THEN ParseReturn(st)
    ELSE IF ~(st.i < Len(mopp))
    THEN IndexError(st)
    ELSE
    LET i == st.i
        toffset == st.toffset
        code == mopp[i + 1]
        seen == [st EXCEPT !.printed = Append(st.printed, i)]
        B(k) == mopp[i + k + 1]             \* mopp[i+k]
        Has(k) == i + k < Len(mopp)         \* mopp[i+k] exists
        \* ids.extend([i, ..., i+k-1]); i = j; toffset = t
        Go(j, t, k) == [seen EXCEPT !.i = j, !.toffset = t,
                                    !.ids = st.ids \o Run(i, k)]
        \* ids.extend(...); tris.append(t); ret = True
        Leaf(t, k) == ParseReturn([seen EXCEPT !.ids = st.ids \o Run(i, k),
                                               !.tris = Append(st.tris, t)])
        \* the two recursive calls of a branch opcode, then ret = True
        Branch(if, else, k) ==
            [seen EXCEPT !.i = if, !.depth = st.depth + 1,
                         !.ids = st.ids \o Run(i, k),
                         !.calls = Append(st.calls,
                                          [start |-> else,
                                           depth |-> st.depth + 1,
                                           toffset |-> toffset]),
                         !.deepest = Max(st.deepest, st.depth + 1)]
    IN
    CASE code = 9 ->
            IF ~Has(1) THEN IndexError(seen)
            ELSE Go(i + 2, IncrementOffset(toffset, B(1)), 2)
      [] code = 10 ->
            IF ~Has(2) THEN IndexError(seen)
            ELSE Go(i + 3, IncrementOffset(toffset, B(1) * 256 + B(2)), 3)
      [] code = 11 ->
            IF ~Has(4) THEN IndexError(seen)
            ELSE Go(i + 5, 256 * B(3) + B(4), 5)
      [] code \in CompactCodes ->
            Leaf(LeafTriangle(code - TriCompactFirst, toffset), 1)
      [] code = 80 ->
            IF ~Has(1) THEN IndexError(seen)
            ELSE Leaf(LeafTriangle(B(1), toffset), 2)
      [] code = 81 ->
            IF ~Has(2) THEN IndexError(seen)
            ELSE Leaf(LeafTriangle(B(1) * 256 + B(2), toffset), 3)
      [] code = 83 ->
            IF ~Has(4) THEN IndexError(seen)
            ELSE Leaf(LeafTriangle(B(3) * 256 + B(4), toffset), 5)
      [] code = 5 ->
            IF ~Has(1) THEN IndexError(seen)
            ELSE Go(i + 2 + B(1), toffset, 2)
      [] code = 6 ->
            IF ~Has(2) THEN IndexError(seen)
            ELSE Go(i + 3 + B(1) * 256 + B(2), toffset, 3)
      [] code \in Branch2Codes ->
            IF ~Has(3) THEN IndexError(seen)
            ELSE Branch(i + 4, BranchElse(i + 4, B(3)), 4)
      [] code \in Branch1Codes ->
            IF ~Has(2) THEN IndexError(seen)
            ELSE Branch(i + 3, BranchElse(i + 3, B(2)), 3)
      [] code \in BranchShortCodes ->
            IF ~Has(6) THEN IndexError(seen)
            ELSE Branch(ShortBranchStart(i + 7, B(3), B(4)),
                        ShortBranchStart(i + 7, B(5), B(6)), 7)
      [] code \in BoundCodes ->
            IF ~Has(2) THEN IndexError(seen)
            ELSE Go(i + 3, toffset, 3)
      [] code \in BoundXYZCodes ->
            IF ~Has(3) THEN IndexError(seen)
            ELSE Go(i + 4, toffset, 4)
      [] OTHER -> UnknownOpcode(seen, code)

\* a pass of the loop, if the decode has not ended
ParsePass(mopp, size, st) ==
    IF st.status # "run" THEN st ELSE ParseStep(mopp, size, st)

\* four passes
ParsePasses(mopp, size, st) ==
    ParsePass(mopp, size,
        ParsePass(mopp, size,
            ParsePass(mopp, size,
                ParsePass(mopp, size, st))))

\* the decode run to its end (several passes per unfolding, which keeps
\* the evaluation shallow for long bytecode)
RECURSIVE ParseRun(_, _, _)
ParseRun(mopp, size, st) ==
    IF st.status # "run" THEN st
    ELSE ParseRun(mopp, size,
                  ParsePasses(mopp, size, ParsePasses(mopp, size, st)))

\* parseMopp(start, depth, toffset): the returned (ids, tris) with status
\* "ok", or the exception; printed and deepest are kept for inspection
parseMopp(mopp, size, start, depth, toffset) ==
    LET st == ParseRun(mopp, size, ParseStart(start, depth, toffset))
    IN [status |-> st.status, ids |-> st.ids, tris |-> st.tris,
        printed |-> st.printed, depth |-> st.deepest, code |-> st.code]

(***************************************************************************)
(* Bounds and inputs of the MOPP specifications.                           *)
(***************************************************************************)
MaxTris == 66
MaxInstr == 4
ProbeLen == 2

\* quantized upper bounds <<maxx, maxy, maxz>> as updateMopp computes them
QBounds ==
    {<<0, 0, 0>>, <<255, 255, 255>>, <<3, 200, 17>>,
     <<-1, 5, 5>>, <<5, 5, 256>>, <<-1, 0, 256>>}

\* bytecode stored in the shape before updateMopp runs
OldBlobs == {<<48>>, <<40, 0, 1, 39, 0, 1, 38, 0, 1, 18, 1, 0, 1, 48, 49>>}

\* instructions (and one operand-less fragment) buffers are made of
CoreInstr ==
    {<<49>>,                    \* 0x31: compact leaf 1
     <<80, 2>>,                 \* 0x50: leaf, byte operand
     <<9, 32>>,                 \* 0x09: triangle offset += 32
     <<9>>,                     \* 0x09 without its operand
     <<5, 1>>,                  \* 0x05: byte jump over 1 byte
     <<18, 5, 0, 1>>,           \* 0x12: branch, else 1 byte further
     <<32, 5, 1>>,              \* 0x20: branch, else 1 byte further
     <<35, 1, 2, 0, 0, 0, 1>>,  \* 0x23: branch, 2-byte displacements
     <<38, 0, 5>>,              \* 0x26: bound X
     <<255>>}                   \* not an opcode

AllInstr ==
    CoreInstr \cup
    {<<79>>,                    \* 0x4F: compact leaf 31
     <<81, 1, 0>>,              \* 0x51: leaf, short operand
     <<83, 0, 0, 0, 7>>,        \* 0x53: leaf, short operand after 2 bytes
     <<10, 1, 0>>,              \* 0x0A: triangle offset += 256
     <<11, 0, 0, 0, 5>>,        \* 0x0B: triangle offset = 5
     <<6, 0, 2>>,               \* 0x06: short jump over 2 bytes
     <<1, 0, 0, 0>>,            \* 0x01: bound XYZ
     <<0>>,                     \* not an opcode
     <<18, 5>>,                 \* 0x12 with one operand only
     <<36, 1, 2, 0, 1, 0, 2>>}  \* 0x24: branch, both sides displaced

RECURSIVE Flat(_)
Flat(ss) == IF ss = <<>> THEN <<>> ELSE Head(ss) \o Flat(Tail(ss))

\* whole trees: a branch with 2-byte displacements over three leaves, a
\* branch whose "if" side raises the triangle offset, an absolute offset
NestedBuffers ==
    {<<36, 1, 2, 0, 1, 0, 2, 48, 49, 50>>,
     <<9, 32, 32, 5, 3, 9, 1, 48, 50>>,
     <<9, 32, 18, 5, 0, 1, 48, 10, 1, 0, 81, 0, 2>>,
     <<11, 9, 9, 0, 5, 80, 1>>}

\* buf is one of the buffers a decode is tried on
Buffers(buf) ==
    \/ \E p \in SeqUpTo(CoreInstr, MaxInstr) : buf = Flat(p)
    \/ \E p \in SeqUpTo(AllInstr, ProbeLen) : buf = Flat(p)
    \/ buf \in NestedBuffers

(***************************************************************************)
(* The MOPP operations.                                                    *)
(***************************************************************************)

\* updateMopp: the range checks raise before anything is stored
UpdateMopp ==
    /\ pc = "shape"
    /\ LET e == MoppBoundsError(qmax)
       IN IF e # NoError
          THEN /\ raised' = e
               /\ pc' = "rejected"
               /\ UNCHANGED <<moppData, moppDataSize>>
          ELSE /\ moppData' = MoppScript(qmax, numtriangles)
               /\ moppDataSize' = Len(moppData')
               /\ raised' = NoError
               /\ pc' = "updated"
    /\ UNCHANGED <<numtriangles, qmax, parsed, mapVars, graphVars, spellVars>>

\* parseMopp() with its default arguments start = 0, depth = 0, toffset = 0
ParseMopp ==
    /\ pc \in {"updated", "loaded"}
    /\ parsed' = parseMopp(moppData, moppDataSize, 0, 0, 0)
    /\ raised' = IF parsed'.status = "ok" THEN NoError
                 ELSE [type |-> parsed'.status, msg |-> "mopp"]
    /\ pc' = IF pc = "updated" THEN "roundtrip" ELSE "parsed"
    /\ UNCHANGED <<moppData, moppDataSize, numtriangles, qmax, mapVars, graphVars, spellVars>>

\* a packed shape with numtriangles triangles and some earlier bytecode
InitTree ==
    /\ pc = "shape"
    /\ numtriangles \in 0..MaxTris
    /\ qmax \in QBounds
    /\ moppData \in OldBlobs
    /\ moppDataSize = Len(moppData)
    /\ parsed = NotParsed
    /\ raised = NoError
    /\ IdleMap
    /\ IdleGraph
    /\ IdleSpell

NextTree == UpdateMopp \/ ParseMopp

SpecMoppTree == InitTree /\ [][NextTree]_vars

\* a shape whose bytecode was loaded from a file
InitDecode ==
    /\ pc = "loaded"
    /\ Buffers(moppData)
    /\ moppDataSize = Len(moppData)
    /\ numtriangles = 0
    /\ qmax = <<0, 0, 0>>
    /\ parsed = NotParsed
    /\ raised = NoError
    /\ IdleMap
    /\ IdleGraph
    /\ IdleSpell

NextDecode == ParseMopp

SpecMoppDecode == InitDecode /\ [][NextDecode]_vars

(***************************************************************************)
(* Claims about the MOPP codec.                                            *)
(***************************************************************************)

\* the triangle list holds exactly the indices 0..n-1, each exactly once
ExactlyOnce(tris, n) ==
    /\ Len(tris) = n
    /\ {tris[k] : k \in 1..Len(tris)} = 0..(n - 1)

\* C3: MOPP round-trip.  For every triangle count n >= 0 the bytecode
\* written by updateMopp, decoded by parseMopp from offset 0 with triangle
\* offset 0, yields exactly the indices 0..n-1, each once, and none >= n.
C3_MoppRoundTrip ==
    pc = "roundtrip" =>
        /\ parsed.status = "ok"
        /\ ExactlyOnce(parsed.tris, numtriangles)
\* the offsets the cursor stood on that hold no recognized opcode
UnknownReached ==
    {k \in 1..Len(parsed.printed) :
        ~Recognized(moppData[parsed.printed[k] + 1])}

C5_RecognizedNeverRaises ==
    (pc = "parsed" /\ UnknownReached = {}) => parsed.status = "ok"

(***************************************************************************)
(* The block graph.  A block is a record; a reference is the handle of a   *)
(* block, 0 for Python's None.  The fields are those the optimizer reads   *)
(* or writes: children (NiNode), properties (NiAVObject), controller       *)
(* (NiObjectNET), target (NiTimeController, bhkCollisionObject), objs      *)
(* (the avObject of each NiDefaultAVObjectPalette entry), meshes           *)
(* (NiPSysMeshEmitter.emitterMeshes) and owned for the other owning        *)
(* references (collision object, texture source, palette, modifiers).      *)
(* The geometry data block is folded into its geometry: vhash are the      *)
(* vertex keys of data.getVertexHashGenerator(), tris is data.triangles,   *)
(* points is data.points.  hash is the block's getHash()/get_hash().       *)
(* vertices, normals, vertex_colors and each array of uv_sets hold one     *)
(* element per vertex; skin says that the geometry has a skin instance,    *)
(* whose bone_list holds for each bone its (vertex index, weight) pairs;   *)
(* morphs holds the vectors of each morph of a morph controller, and bones  *)
(* holds the nodes that skin_instance.bones points at.  origin and scale   *)
(* are those of a bhkMoppBvTreeShape: lengths are whole numbers of tenths, *)
(* and scale is held as the fraction num / den of 256 * 256.               *)
(* sub_shapes holds the vertex count of each sub shape of a packed         *)
(* collision shape, which is folded into its bhkMoppBvTreeShape.           *)
(* num_triangles is a field of the data of its own: extra_triangles is     *)
(* what it counts beyond the triangles that the lists of the data hold.    *)
(***************************************************************************)
NoRef == 0

Block(k) ==
    [kind |-> k, children |-> <<>>, properties |-> <<>>, controller |-> NoRef,
     owned |-> <<>>, target |-> NoRef, objs |-> <<>>, meshes |-> <<>>,
     hash |-> 0, vhash |-> <<>>, tris |-> <<>>, points |-> <<>>,
     has_vertices |-> FALSE, vertices |-> <<>>,
     has_normals |-> FALSE, normals |-> <<>>, uv_sets |-> <<>>,
     has_vertex_colors |-> FALSE, vertex_colors |-> <<>>,
     skin |-> FALSE, bone_list |-> <<>>, morphs |-> <<>>,
     sub_shapes |-> <<>>, extra_triangles |-> 0, bones |-> <<>>,
     origin |-> <<0, 0, 0>>, scale |-> [num |-> 1, den |-> 1]]

\* isinstance(block, NifFormat.X)
IsNiNode(k) == k = "NiNode"

IsNiTriStrips(k) == k = "NiTriStrips"

IsNiTriShape(k) == k = "NiTriShape"

IsNiTriBasedGeom(k) == IsNiTriStrips(k) \/ IsNiTriShape(k)

IsNiAVObject(k) == IsNiNode(k) \/ IsNiTriBasedGeom(k)

IsBSShaderProperty(k) == k = "BSShaderProperty"

IsNiProperty(k) == k = "NiMaterialProperty" \/ IsBSShaderProperty(k)

IsNiObjectNET(k) == IsNiAVObject(k) \/ IsNiProperty(k) \/ k = "NiSourceTexture"

IsNiTimeController(k) == k = "NiTimeController"

IsNiDefaultAVObjectPalette(k) == k = "NiDefaultAVObjectPalette"

IsbhkCollisionObject(k) == k = "bhkCollisionObject"

IsNiPSysMeshEmitter(k) == k = "NiPSysMeshEmitter"

Range(s) == {s[k] : k \in 1..Len(s)}

\* the references of a block that own their target, in field order
RefSeq(b) ==
    SelectSeq(<<b.controller>> \o b.properties \o b.owned \o b.children,
              LAMBDA r : r # NoRef)

\* block.getLinks(): every block this block refers to
Links(b) ==
    (Range(b.children) \cup Range(b.properties) \cup Range(b.owned)
        \cup Range(b.objs) \cup Range(b.meshes)
        \cup {b.controller, b.target}) \ {NoRef}

RECURSIVE TreeFrom(_, _, _)
TreeFrom(bs, todo, seen) ==
    IF todo = <<>> THEN seen
    ELSE LET b == Head(todo)
         IN IF b = NoRef \/ b \in Range(seen) \/ b \notin DOMAIN bs
            THEN TreeFrom(bs, Tail(todo), seen)
            ELSE TreeFrom(bs, RefSeq(bs[b]) \o Tail(todo), Append(seen, b))

\* root.tree(unique = True): the blocks under root, depth first, each once
Tree(bs, root) == TreeFrom(bs, <<root>>, <<>>)

(***************************************************************************)
(* Triangles and strips (TriStrip, getTriangles, setTriangles).            *)
(***************************************************************************)
STRIPLENCUTOFF == 10

Degenerate(t) == t[1] = t[2] \/ t[2] = t[3] \/ t[3] = t[1]

\* the triangles of one strip; every other triangle is flipped
TriangulateStrip(s) ==
    LET tri(k) == IF k % 2 = 1 THEN <<s[k], s[k + 1], s[k + 2]>>
                  ELSE <<s[k], s[k + 2], s[k + 1]>>
        all == [k \in 1..(IF Len(s) < 3 THEN 0 ELSE Len(s) - 2) |-> tri(k)]
    IN SelectSeq(all, LAMBDA t : ~Degenerate(t))

RECURSIVE Triangulate(_)
Triangulate(strips) ==
    IF strips = <<>> THEN <<>>
    ELSE TriangulateStrip(Head(strips)) \o Triangulate(Tail(strips))

\* a strip is extended as long as the next triangle continues it
RECURSIVE StripifyFrom(_, _, _, _)
StripifyFrom(tris, k, strips, cur) ==
    IF k > Len(tris)
    THEN IF cur = <<>> THEN strips ELSE Append(strips, cur)
    ELSE LET t == tris[k]
             n == Len(cur)
         IN IF cur = <<>>
            THEN StripifyFrom(tris, k + 1, strips, t)
            ELSE IF n % 2 = 0 /\ t[1] = cur[n - 1] /\ t[2] = cur[n]
            THEN StripifyFrom(tris, k + 1, strips, Append(cur, t[3]))
            ELSE IF n % 2 = 1 /\ t[1] = cur[n - 1] /\ t[3] = cur[n]
            THEN StripifyFrom(tris, k + 1, strips, Append(cur, t[2]))
            ELSE StripifyFrom(tris, k + 1, Append(strips, cur), t)

\* TriStrip.stripify
Stripify(tris) ==
    StripifyFrom(SelectSeq(tris, LAMBDA t : ~Degenerate(t)), 1, <<>>, <<>>)

\* TriStrip.stitchStrips: one strip, the pieces joined by degenerate triangles
RECURSIVE StitchStrips(_)
StitchStrips(strips) ==
    IF strips = <<>> THEN <<>>
    ELSE IF Len(strips) = 1 THEN Head(strips)
    ELSE LET a == Head(strips)
             b == strips[2]
             link == IF Len(a) % 2 = 1
                     THEN <<a[Len(a)], b[1], b[1]>>
                     ELSE <<a[Len(a)], b[1]>>
         IN StitchStrips(<<a \o link \o b>> \o SubSeq(strips, 3, Len(strips)))

RECURSIVE SumSeq(_)
SumSeq(s) == IF s = <<>> THEN 0 ELSE Head(s) + SumSeq(Tail(s))

\* avgstriplen < striplencutoff, for strips of the given lengths
ShortStrips(strips) ==
    LET lens == [k \in 1..Len(strips) |-> Len(strips[k])]
        sq == [k \in 1..Len(strips) |-> Len(strips[k]) * Len(strips[k])]
        total == SumSeq(lens)
    IN SumSeq(sq) < STRIPLENCUTOFF * (IF total < 1 THEN 1 ELSE total)

\* a plausible slip: the new element k is the old element k
KeptVerticesTruncated(vhash, m) == SubSeq(vhash, 1, Len(m.v_map_inverse))

\* the vertex keys kept by the scan, in their new order
KeptVertices(vhash, m) ==
    [k \in 1..Len(m.v_map_inverse) |-> vhash[m.v_map_inverse[k] + 1]]

\* a plausible slip: the triangles keep their old vertex indices
MapTrianglesUnmapped(tris, vmap) == tris

\* tri.v1 = v_map[tri.v1] ...
MapTriangles(tris, vmap) ==
    [k \in 1..Len(tris) |->
        <<vmap[tris[k][1] + 1], vmap[tris[k][2] + 1], vmap[tris[k][3] + 1]>>]

(***************************************************************************)
(* optimizeTriBasedGeom: the optimized version of a geometry block.  The   *)
(* data of the block itself is rewritten in place; a stripified or         *)
(* triangulated version is a new block.                                    *)
(***************************************************************************)
optimizeTriBasedGeom(bs, b) ==
    LET blk == bs[b]
        m == UniqueMap(blk.vhash)
        \* the data after "removing duplicate vertices" and the index update
        mapped == [blk EXCEPT
                     !.vhash = KeptVertices(blk.vhash, m),
                     !.tris = IF IsNiTriShape(blk.kind)
                              THEN MapTriangles(blk.tris, m.v_map) ELSE @,
                     !.points = IF IsNiTriStrips(blk.kind)
                                THEN [s \in 1..Len(@) |->
                                        [i \in 1..Len(@[s]) |->
                                            m.v_map[@[s][i] + 1]]]
                                ELSE @]
        \* data.setTriangles(data.getTriangles()) or stripifyTriShape(block)
        pts == IF IsNiTriStrips(blk.kind)
               THEN Stripify(Triangulate(mapped.points))
               ELSE Stripify(mapped.tris)
        strips == [mapped EXCEPT !.kind = "NiTriStrips", !.tris = <<>>,
                                 !.points = pts]
        stitched == [strips EXCEPT !.points = <<StitchStrips(pts)>>]
        \* triangulateTriStrips(block)
        shape == [strips EXCEPT !.kind = "NiTriShape", !.points = <<>>,
                                !.tris = Triangulate(pts)]
        fresh == Len(bs) + 1
    IN IF Len(blk.vhash) < 3
       THEN \* less than 3 vertices: removing block
            [blocks |-> bs, newblock |-> NoRef]
       ELSE IF ShortStrips(pts)
       THEN [blocks |-> Append([bs EXCEPT ![b] = IF IsNiTriStrips(blk.kind)
                                                 THEN strips ELSE mapped],
                               shape),
             newblock |-> fresh]
       ELSE IF IsNiTriStrips(blk.kind)
       THEN [blocks |-> [bs EXCEPT ![b] = stitched], newblock |-> b]
       ELSE [blocks |-> Append([bs EXCEPT ![b] = mapped], stitched),
             newblock |-> fresh]

(***************************************************************************)
(* testRoot: "removing duplicate and empty children" and "optimizing       *)
(* geometries" with the search for all locations of the optimized block.   *)
(***************************************************************************)

\* childlist: the entries that are not None and not already in the list
RECURSIVE CleanList(_, _)
CleanList(list, acc) ==
    IF list = <<>> THEN acc
    ELSE CleanList(Tail(list),
                   IF Head(list) = NoRef \/ Head(list) \in Range(acc)
                   THEN acc ELSE Append(acc, Head(list)))

\* "for i, x in enumerate(list): if x is block: list[i] = newblock"
Subst(list, block, newblock) ==
    [k \in 1..Len(list) |-> IF list[k] = block THEN newblock ELSE list[k]]

DontKnowHowToReplace(blockkind, otherkind) ==
    [type |-> "RuntimeError", msg |-> "don't know how to replace block",
     block |-> blockkind, otherblock |-> otherkind]

\* a plausible slip: a referrer of another kind is passed over
ReplaceInBlockSkips(other, block, newblock, blockkind) ==
    IF IsNiNode(other.kind)
    THEN [blk |-> [other EXCEPT !.children = Subst(@, block, newblock)],
          err |-> NoError]
    ELSE IF IsNiTimeController(other.kind)
    THEN [blk |-> [other EXCEPT
                     !.target = IF @ = block THEN newblock ELSE @],
          err |-> NoError]
    ELSE IF IsNiDefaultAVObjectPalette(other.kind)
    THEN [blk |-> [other EXCEPT !.objs = Subst(@, block, newblock)],
          err |-> NoError]
    ELSE IF IsbhkCollisionObject(other.kind)
    THEN [blk |-> [other EXCEPT
                     !.target = IF @ = block THEN newblock ELSE @],
          err |-> NoError]
    ELSE [blk |-> other, err |-> NoError]

\* the if/elif chain on the kind of a block that links to the replaced block
ReplaceInBlock(other, block, newblock, blockkind) ==
    IF IsNiNode(other.kind)
    THEN [blk |-> [other EXCEPT !.children = Subst(@, block, newblock)],
          err |-> NoError]
    ELSE IF IsNiTimeController(other.kind)
    THEN [blk |-> [other EXCEPT
                     !.target = IF @ = block THEN newblock ELSE @],
          err |-> NoError]
    ELSE IF IsNiDefaultAVObjectPalette(other.kind)
    THEN [blk |-> [other EXCEPT !.objs = Subst(@, block, newblock)],
          err |-> NoError]
    ELSE IF IsbhkCollisionObject(other.kind)
    THEN [blk |-> [other EXCEPT
                     !.target = IF @ = block THEN newblock ELSE @],
          err |-> NoError]
    ELSE [blk |-> other, err |-> DontKnowHowToReplace(blockkind, other.kind)]

\* "for otherblock in block_list", from position k on; stops when it raises
RECURSIVE ReplaceFrom(_, _, _, _, _)
ReplaceFrom(bs, list, k, block, newblock) ==
    IF k > Len(list) THEN [blocks |-> bs, err |-> NoError]
    ELSE LET o == list[k]
         IN IF block \notin Links(bs[o])
            THEN ReplaceFrom(bs, list, k + 1, block, newblock)
            ELSE LET r == ReplaceInBlock(bs[o], block, newblock,
                                         bs[block].kind)
                 IN IF r.err # NoError
                    THEN [blocks |-> bs, err |-> r.err]
                    ELSE ReplaceFrom([bs EXCEPT ![o] = r.blk], list, k + 1,
                                     block, newblock)

(***************************************************************************)
(* The documents handed to testRoot: a root node (1) over a node (2), two  *)
(* geometries (3, 4) and one more block (5) that may refer to a geometry.  *)
(***************************************************************************)
MaxChildren == 2

\* a strip of ten vertices: long enough to stay a strip
LongStrip == [k \in 1..STRIPLENCUTOFF |-> k - 1]

Geoms ==
    {[Block("NiTriShape") EXCEPT !.vhash = <<1, 2>>],
     [Block("NiTriStrips") EXCEPT !.vhash = <<1, 1>>, !.points = <<<<0, 1>>>>],
     [Block("NiTriShape") EXCEPT !.vhash = <<1, 2, 1, 3>>,
                                 !.tris = <<<<0, 1, 3>>, <<2, 3, 1>>>>],
     [Block("NiTriStrips") EXCEPT !.vhash = <<1, 2, 3, 2>>,
                                  !.points = <<<<0, 1, 2>>, <<2, 3, 0>>>>],
     [Block("NiTriShape") EXCEPT !.vhash = [k \in 1..STRIPLENCUTOFF |-> k],
                                 !.tris = TriangulateStrip(LongStrip)],
     [Block("NiTriStrips") EXCEPT !.vhash = [k \in 1..STRIPLENCUTOFF |-> k],
                                  !.points = <<LongStrip>>]}

SmallGeoms == {g \in Geoms : IsNiTriShape(g.kind) /\ Len(g.vhash) < 5}

\* the fifth block: what it is and what it points at
Referrers ==
    {[Block("NiTimeController") EXCEPT !.target = t] : t \in {0, 3, 4}}
    \cup {[Block("NiDefaultAVObjectPalette") EXCEPT !.objs = o] :
            o \in {<<3>>, <<4, 3>>}}
    \cup {[Block("bhkCollisionObject") EXCEPT !.target = t] : t \in {1, 3}}
    \cup {[Block("NiPSysMeshEmitter") EXCEPT !.meshes = e] :
            e \in {<<>>, <<3>>, <<4>>}}

RootNode(ch, r) ==
    [Block("NiNode") EXCEPT
        !.children = ch,
        !.controller = IF IsNiTimeController(r.kind) THEN 5 ELSE NoRef,
        !.owned = IF IsNiTimeController(r.kind) THEN <<>> ELSE <<5>>]

ReplaceDocs ==
    {<<RootNode(ch, r), [Block("NiNode") EXCEPT !.children = ch2], g, h, r>> :
        ch \in SeqUpTo({0, 2, 3, 4}, MaxChildren),
        ch2 \in {<<>>, <<3>>, <<4, 3>>},
        g \in Geoms, h \in SmallGeoms, r \in Referrers}

InitReplace ==
    /\ pc = "testRoot"
    /\ blocks \in ReplaceDocs
    /\ roots = <<1>>
    /\ block_list = <<>>
    /\ bi = 0
    /\ optimized_geometries = <<>>
    /\ replaced = NotReplaced
    /\ raised = NoError
    /\ IdleMap
    /\ IdleMopp
    /\ IdleSpell

\* opt_shapes, "removing duplicate and empty children", and the block list
\* of "optimizing geometries"
CleanChildren ==
    /\ pc = "testRoot"
    /\ LET list == Tree(blocks, roots[1])
           opt_shapes == \A b \in Range(list) :
                             ~IsNiPSysMeshEmitter(blocks[b].kind)
           cleaned == [b \in 1..Len(blocks) |->
                         IF opt_shapes /\ b \in Range(list)
                                       /\ IsNiNode(blocks[b].kind)
                         THEN [blocks[b] EXCEPT
                                 !.children = CleanList(@, <<>>)]
                         ELSE blocks[b]]
       IN /\ blocks' = cleaned
          /\ block_list' = Tree(cleaned, roots[1])
    /\ bi' = 0
    /\ optimized_geometries' = <<>>
    /\ replaced' = NotReplaced
    /\ pc' = "geometries"
    /\ UNCHANGED <<roots, raised, mapVars, moppVars, spellVars>>

\* a block that is no geometry, or "already optimized? skip!"
SkipBlock ==
    /\ pc = "geometries"
    /\ bi < Len(block_list)
    /\ LET block == block_list[bi + 1]
       IN \/ ~IsNiTriBasedGeom(blocks[block].kind)
          \/ block \in Range(optimized_geometries)
    /\ bi' = bi + 1
    /\ replaced' = NotReplaced
    /\ UNCHANGED <<pc, blocks, roots, block_list, optimized_geometries,
                   raised, mapVars, moppVars, spellVars>>

\* one geometry of the loop: optimize it and replace it wherever it is used
OptimizeGeometry ==
    /\ pc = "geometries"
    /\ bi < Len(block_list)
    /\ LET block == block_list[bi + 1]
           r == optimizeTriBasedGeom(blocks, block)
           newblock == r.newblock
           rep == ReplaceFrom(r.blocks, block_list, 1, block, newblock)
       IN /\ IsNiTriBasedGeom(blocks[block].kind)
          /\ block \notin Range(optimized_geometries)
          /\ IF newblock = block
             THEN /\ blocks' = r.blocks
                  /\ optimized_geometries' = Append(optimized_geometries, block)
                  /\ replaced' = NotReplaced
                  /\ bi' = bi + 1
                  /\ UNCHANGED <<pc, raised>>
             ELSE /\ blocks' = rep.blocks
                  /\ optimized_geometries' =
                        optimized_geometries \o <<block, newblock>>
                  /\ replaced' = [old |-> block, new |-> newblock,
                                  before |-> r.blocks]
                  /\ IF rep.err # NoError
                     THEN /\ raised' = rep.err
                          /\ pc' = "raised"
                          /\ bi' = bi
                     ELSE /\ bi' = bi + 1
                          /\ UNCHANGED <<pc, raised>>
    /\ UNCHANGED <<roots, block_list, mapVars, moppVars, spellVars>>

\* the loop is exhausted
GeometriesDone ==
    /\ pc = "geometries"
    /\ bi = Len(block_list)
    /\ pc' = "optimized"
    /\ replaced' = NotReplaced
    /\ UNCHANGED <<blocks, roots, block_list, bi, optimized_geometries,
                   raised, mapVars, moppVars, spellVars>>

NextReplace == CleanChildren \/ SkipBlock \/ OptimizeGeometry \/ GeometriesDone

SpecReplace == InitReplace /\ [][NextReplace]_vars

(***************************************************************************)
(* Claims about the replacement of a block.                                *)
(***************************************************************************)

\* what a list or a single reference is after A was replaced by B
Repointed(list, A, B) ==
    IF B = NoRef THEN SelectSeq(list, LAMBDA r : r # A) ELSE Subst(list, A, B)

RepointedRef(r, A, B) == IF r = A THEN B ELSE r

\* C6: global-replace completeness.  After a block A is replaced by B no
\* reachable block holds a reference to A in any reference field, and every
\* location of a reachable block that referenced A now references B, or the
\* element is removed (not left as an empty entry) when B is none.
C6_ReplaceComplete ==
    (replaced.old # NoRef /\ pc # "raised") =>
        LET A == replaced.old
            B == replaced.new
            before == replaced.before
        IN /\ \A b \in Range(Tree(blocks, roots[1])) : A \notin Links(blocks[b])
           /\ A \notin Range(roots)
           /\ \A b \in Range(Tree(before, roots[1])) \ {A} :
                /\ blocks[b].children = Repointed(before[b].children, A, B)
                /\ blocks[b].properties = Repointed(before[b].properties, A, B)
                /\ blocks[b].owned = Repointed(before[b].owned, A, B)
                /\ blocks[b].objs = Repointed(before[b].objs, A, B)
                /\ blocks[b].meshes = Repointed(before[b].meshes, A, B)
                /\ blocks[b].controller = RepointedRef(before[b].controller, A, B)
                /\ blocks[b].target = RepointedRef(before[b].target, A, B)

\* the kinds of referrer the replacement knows how to update
Enumerated(k) ==
    \/ IsNiNode(k)
    \/ IsNiTimeController(k)
    \/ IsNiDefaultAVObjectPalette(k)
    \/ IsbhkCollisionObject(k)

\* the positions of block_list that held a referrer of another kind
UnknownReferrers ==
    {k \in 1..Len(block_list) :
        /\ replaced.old \in Links(replaced.before[block_list[k]])
        /\ ~Enumerated(replaced.before[block_list[k]].kind)}

\* C7: when the replacement of a block meets a referrer whose kind is not a
\* node, a controller, an object palette or a collision object, it stops
\* with a RuntimeError that names the kind of the replaced block and the
\* kind of the referrer; the referrer is not passed over.
C7_UnknownReferrerFatal ==
    (replaced.old # NoRef /\ UnknownReferrers # {}) =>
        LET k == CHOOSE i \in UnknownReferrers :
                     \A j \in UnknownReferrers : i <= j
            o == block_list[k]
        IN /\ pc = "raised"
           /\ raised = DontKnowHowToReplace(replaced.before[replaced.old].kind,
                                            replaced.before[o].kind)
           /\ \A j \in k..Len(block_list) :
                 blocks[block_list[j]] = replaced.before[block_list[j]]

\* a geometry used by a node and by a mesh emitter: the node, earlier in the
\* list, was updated before the error
C7_Witness ==
    /\ pc = "raised"
    /\ replaced.new # NoRef
    /\ raised.type = "RuntimeError"
    /\ raised.block = "NiTriShape"
    /\ raised.otherblock = "NiPSysMeshEmitter"
    /\ blocks[1] # replaced.before[1]

(***************************************************************************)
(* The spells of pyffi.spells.nif.optimize.  A spell is cast on a document *)
(* by the toaster: datainspect, dataentry, then a depth-first recursion    *)
(* that calls branchinspect and branchentry on every branch and descends   *)
(* into the child nodes of the branches whose branchentry says so.         *)
(***************************************************************************)

\* every block under the roots, depth first, each once
TreeAll(bs, rs) == TreeFrom(bs, rs, <<>>)

\* isinstance for the block types the spells look for in the header
IsInstance(k, block_type) ==
    CASE block_type = "NiPSysMeshEmitter" -> IsNiPSysMeshEmitter(k)
      [] block_type = "NiObjectNET" -> IsNiObjectNET(k)
      [] block_type = "NiTriBasedGeom" -> IsNiTriBasedGeom(k)

\* header.has_block_type(T): raises ValueError for a header without types
has_block_type(block_type) ==
    IF header = "notypes" THEN "ValueError"
    ELSE IF \E b \in Range(TreeAll(blocks, roots)) :
                IsInstance(blocks[b].kind, block_type)
    THEN "True" ELSE "False"

\* NifSpell.inspectblocktype: when the header cannot tell, inspect the file
inspectblocktype(block_type) == has_block_type(block_type) # "False"

\* data.replace_global_node(oldbranch, newbranch): every reference to
\* oldbranch in the graph under the roots is repointed, or removed
replace_global_node(bs, rs, oldbranch, newbranch) ==
    LET reach == Range(TreeAll(bs, rs))
        rp(list) == Repointed(list, oldbranch, newbranch)
        rr(ref) == RepointedRef(ref, oldbranch, newbranch)
    IN [blocks |-> [b \in 1..Len(bs) |->
                      IF b \in reach
                      THEN [bs[b] EXCEPT
                              !.children = rp(@), !.properties = rp(@),
                              !.owned = rp(@), !.objs = rp(@),
                              !.meshes = rp(@), !.controller = rr(@),
                              !.target = rr(@), !.bones = rp(@)]
                      ELSE bs[b]],
        roots |-> rp(rs)]

\* branch.is_interchangeable(otherbranch): the same kind of block with the
\* same content that owns interchangeable blocks
RECURSIVE is_interchangeable(_, _, _)
is_interchangeable(bs, a, b) ==
    \/ a = b
    \/ /\ a # NoRef /\ b # NoRef
       /\ bs[a].kind = bs[b].kind
       /\ bs[a].hash = bs[b].hash
       /\ bs[a].vhash = bs[b].vhash
       /\ bs[a].tris = bs[b].tris
       /\ bs[a].points = bs[b].points
       /\ LET ra == <<bs[a].controller>> \o bs[a].properties
                        \o bs[a].owned \o bs[a].children
              rb == <<bs[b].controller>> \o bs[b].properties
                        \o bs[b].owned \o bs[b].children
          IN /\ Len(ra) = Len(rb)
             /\ \A i \in 1..Len(ra) : is_interchangeable(bs, ra[i], rb[i])

\* a plausible slip: only the empty references are removed
cleanreflistKeepsDuplicates(reflist) ==
    SelectSeq(reflist, LAMBDA ref : ref # NoRef)

\* SpellCleanRefLists.cleanreflist
cleanreflist(reflist) == CleanList(reflist, <<>>)

\* the loop of cleanreflist with its "self.changed = True"
RECURSIVE CleanRefsFrom(_, _, _)
CleanRefsFrom(reflist, cleanlist, flag) ==
    IF reflist = <<>> THEN [cleanlist |-> cleanlist, changed |-> flag]
    ELSE IF Head(reflist) = NoRef
    THEN \* removing empty reference
         CleanRefsFrom(Tail(reflist), cleanlist, TRUE)
    ELSE IF Head(reflist) \in Range(cleanlist)
    THEN \* removing duplicate reference
         CleanRefsFrom(Tail(reflist), cleanlist, TRUE)
    ELSE CleanRefsFrom(Tail(reflist), Append(cleanlist, Head(reflist)), flag)

\* a plausible slip: a duplicate is dropped without "self.changed = True"
cleanreflistSetsChangedForEmpty(reflist) == NoRef \in Range(reflist)

\* whether cleanreflist(reflist) sets self.changed
cleanreflistSetsChanged(reflist) ==
    CleanRefsFrom(reflist, <<>>, FALSE).changed

\* SpellCleanRefLists.datainspect
CleanRefListsDatainspect ==
    IF has_block_type("NiPSysMeshEmitter") = "True"
    THEN FALSE
    ELSE inspectblocktype("NiObjectNET")

\* a plausible slip: the merge is cast whatever the header says
MergeDuplicatesDatainspectAlways == TRUE

\* SpellMergeDuplicates.datainspect: "when in doubt, do the spell"
MergeDuplicatesDatainspect ==
    has_block_type("NiPSysMeshEmitter") # "True"

\* SpellOptimizeGeometry.datainspect
OptimizeGeometryDatainspect ==
    IF sidecar THEN FALSE ELSE inspectblocktype("NiTriBasedGeom")

\* SpellDelUnusedBones.datainspect: inspectblocktype(NiSkinInstance), the
\* skin instance of a geometry being folded into the geometry
DelUnusedBonesDatainspect ==
    \/ header = "notypes"
    \/ \E b \in Range(TreeAll(blocks, roots)) : blocks[b].skin

Datainspect ==
    CASE spell = "opt_cleanreflists" -> CleanRefListsDatainspect
      [] spell = "opt_mergeduplicates" -> MergeDuplicatesDatainspect
      [] spell = "opt_geometry" -> OptimizeGeometryDatainspect
      [] spell = "opt_delunusedbones" -> DelUnusedBonesDatainspect

\* SpellDelUnusedBones.dataentry: the bones of every skinned geometry
UsedBones(bs, rs) ==
    UNION {Range(bs[b].bones) :
             b \in {g \in Range(TreeAll(bs, rs)) :
                      IsNiTriBasedGeom(bs[g].kind) /\ bs[g].skin}}

\* branchinspect of the three spells
Branchinspect(k) ==
    CASE spell = "opt_cleanreflists" -> IsNiObjectNET(k)
      [] spell = "opt_mergeduplicates" -> IsNiObjectNET(k)
      [] spell = "opt_geometry" -> IsNiAVObject(k)
      [] spell = "opt_delunusedbones" -> IsNiNode(k)

\* what a branchentry that changes nothing gives
Entered(bs, rs, rec) ==
    [blocks |-> bs, roots |-> rs, recurse |-> rec, changed |-> FALSE,
     branches |-> branches, replaced |-> NotReplaced, err |-> NoError]

\* SpellCleanRefLists.branchentry
CleanRefListsBranchentry(bs, rs, branch) ==
    LET k == bs[branch].kind
        cleaned == [bs[branch] EXCEPT
                      !.properties = IF IsNiAVObject(k)
                                     THEN cleanreflist(@) ELSE @,
                      !.children = IF IsNiNode(k)
                                   THEN cleanreflist(@) ELSE @]
    IN [Entered([bs EXCEPT ![branch] = cleaned], rs, TRUE)
           EXCEPT !.changed =
                    \/ /\ IsNiAVObject(k)
                       /\ cleanreflistSetsChanged(bs[branch].properties)
                    \/ /\ IsNiNode(k)
                       /\ cleanreflistSetsChanged(bs[branch].children)]

\* a plausible slip: only the shader properties are kept from the merge
MergeSkipsShadersOnly(b) == IsBSShaderProperty(b.kind)

\* the two "continue" of SpellMergeDuplicates.branchentry
MergeSkips(b) ==
    \/ IsNiProperty(b.kind) /\ b.controller # NoRef
    \/ IsBSShaderProperty(b.kind)

\* a plausible slip: the recursion goes on into the branch that was replaced
MergeDuplicatesBranchentryRecurses(bs, rs, branch) ==
    LET found == {k \in 1..Len(branches) :
                    /\ branch # branches[k]
                    /\ is_interchangeable(bs, branch, branches[k])
                    /\ ~MergeSkips(bs[branch])}
        otherbranch == branches[CHOOSE k \in found : \A j \in found : k <= j]
        r == replace_global_node(bs, rs, branch, otherbranch)
    IN IF found # {}
       THEN [Entered(r.blocks, r.roots, TRUE) EXCEPT !.changed = TRUE]
       ELSE [Entered(bs, rs, TRUE) EXCEPT
               !.branches = Append(branches, branch)]

\* SpellMergeDuplicates.branchentry
MergeDuplicatesBranchentry(bs, rs, branch) ==
    LET found == {k \in 1..Len(branches) :
                    /\ branch # branches[k]
                    /\ is_interchangeable(bs, branch, branches[k])
                    /\ ~MergeSkips(bs[branch])}
        otherbranch == branches[CHOOSE k \in found : \A j \in found : k <= j]
        r == replace_global_node(bs, rs, branch, otherbranch)
    IN IF found # {}
       THEN [Entered(r.blocks, r.roots, FALSE) EXCEPT
               !.changed = TRUE,
               !.replaced = [old |-> branch, new |-> otherbranch,
                             before |-> bs]]
       ELSE [Entered(bs, rs, TRUE) EXCEPT
               !.branches = Append(branches, branch)]

\* "strip[i] = v_map[strip[i]]" for i from position i on, with the repair of
\* an index that is out of range; the repair of a strip of one raises
RECURSIVE MapStripFrom(_, _, _)
MapStripFrom(strip, i, vmap) ==
    IF i >= Len(strip) THEN [strip |-> strip, err |-> NoError]
    ELSE IF strip[i + 1] < Len(vmap)
    THEN MapStripFrom([strip EXCEPT ![i + 1] = vmap[strip[i + 1] + 1]],
                      i + 1, vmap)
    ELSE IF i > 0
    THEN MapStripFrom([strip EXCEPT ![i + 1] = strip[i]], i + 1, vmap)
    ELSE IF Len(strip) > 1
    THEN MapStripFrom([strip EXCEPT ![1] = strip[2]], 1, vmap)
    ELSE [strip |-> strip,
          err |-> [type |-> "IndexError", msg |-> "list index out of range"]]

\* "for strip in data.points"
RECURSIVE MapStripsFrom(_, _, _)
MapStripsFrom(points, s, vmap) ==
    IF s > Len(points) THEN [points |-> points, err |-> NoError]
    ELSE LET r == MapStripFrom(points[s], 0, vmap)
         IN IF r.err # NoError
            THEN [points |-> points, err |-> r.err]
            ELSE MapStripsFrom([points EXCEPT ![s] = r.strip], s + 1, vmap)

\* branch.get_vertex_weights(): for each of the n vertices the
\* (bone number, weight) pairs of the bones that weigh it
get_vertex_weights(bone_list, n) ==
    [i \in 1..n |->
        Flat([b \in 1..Len(bone_list) |->
                LET vw == SelectSeq(bone_list[b], LAMBDA e : e[1] = i - 1)
                IN [k \in 1..Len(vw) |-> <<b - 1, vw[k][2]>>]])]

\* "w": the (i, weight_i) pairs of bone bonenum among the new weights
BoneWeights(newweights, bonenum) ==
    Flat([i \in 1..Len(newweights) |->
            LET wl == SelectSeq(newweights[i], LAMBDA e : e[1] = bonenum)
            IN [k \in 1..Len(wl) |-> <<i - 1, wl[k][2]>>]])

\* the value of an expression, computed once: the element of {e}
Once(S) == CHOOSE x \in S : TRUE

\* branchentry from "copy old data" to "update vertex indices": the data
\* with its new vertices (indexed), the same after "update skin data" and
\* "update morph data" (mapped), and the exception of the strip update
RewriteData(blk, m) ==
    LET ms == MapStripsFrom(blk.points, 1, m.v_map)
        oldweights == get_vertex_weights(blk.bone_list, Len(blk.vhash))
        newweights == KeptVertices(oldweights, m)
        \* set new data, update vertex indices in strips/triangles
        indexed == [blk EXCEPT
                     !.vhash = KeptVertices(blk.vhash, m),
                     !.vertices = IF blk.has_vertices
                                  THEN KeptVertices(@, m) ELSE @,
                     !.normals = IF blk.has_normals
                                 THEN KeptVertices(@, m) ELSE @,
                     !.uv_sets = [j \in 1..Len(@) |-> KeptVertices(@[j], m)],
                     !.vertex_colors = IF blk.has_vertex_colors
                                       THEN KeptVertices(@, m) ELSE @,
                     !.tris = IF IsNiTriShape(blk.kind)
                              THEN MapTriangles(blk.tris, m.v_map) ELSE @,
                     !.points = IF IsNiTriStrips(blk.kind)
                                THEN ms.points ELSE @]
    IN [indexed |-> indexed,
        \* update skin data, update morph data
        mapped |-> [indexed EXCEPT
                     !.bone_list = IF blk.skin
                                   THEN [b \in 1..Len(@) |->
                                            BoneWeights(newweights, b - 1)]
                                   ELSE @,
                     !.morphs = [j \in 1..Len(@) |-> KeptVertices(@[j], m)]],
        err |-> IF IsNiTriStrips(blk.kind) THEN ms.err ELSE NoError]

\* the triangles of the lists of the data
ListedTriangles(blk) ==
    IF IsNiTriStrips(blk.kind)
    THEN SumSeq([s \in 1..Len(blk.points) |->
                    IF Len(blk.points[s]) < 3 THEN 0
                    ELSE Len(blk.points[s]) - 2])
    ELSE Len(blk.tris)

\* data.num_triangles
num_triangles(blk) == ListedTriangles(blk) + blk.extra_triangles

\* "Found an insane amount of %i triangles in geometry"
InsaneTriangles == 32000

\* a plausible slip: a geometry of exactly 32000 triangles is left alone too
InsaneAmountFrom(n) == n >= InsaneTriangles

\* data.num_triangles > 32000
InsaneAmount(n) == n > InsaneTriangles

\* "recalculating strips" / "stripifying": the strips of the new data
NewStrips(mapped) ==
    IF IsNiTriStrips(mapped.kind)
    THEN Stripify(Triangulate(mapped.points))
    ELSE Stripify(mapped.tris)

\* branchentry from "stripify trishape/tristrip" on, for the rewritten
\* data rw and its strips pts
StripifyBranch(bs, rs, branch, rw, pts) ==
    LET blk == bs[branch]
        mapped == rw.mapped
        strips == [mapped EXCEPT !.kind = "NiTriStrips", !.tris = <<>>,
                                 !.points = pts, !.extra_triangles = 0]
        stitched == [strips EXCEPT !.points = <<StitchStrips(pts)>>]
        shape == [strips EXCEPT !.kind = "NiTriShape", !.points = <<>>,
                                !.tris = Triangulate(pts)]
        \* the strips: the branch itself, or its interchangeable tri strips
        bs1 == IF IsNiTriStrips(blk.kind)
               THEN [bs EXCEPT ![branch] = strips]
               ELSE Append([bs EXCEPT ![branch] = mapped], strips)
        b1 == IF IsNiTriStrips(blk.kind) THEN branch ELSE Len(bs) + 1
        r1 == IF IsNiTriStrips(blk.kind)
              THEN [blocks |-> bs1, roots |-> rs]
              ELSE replace_global_node(bs1, rs, branch, b1)
        \* triangulated: its interchangeable tri shape takes its place
        b2 == Len(r1.blocks) + 1
        r2 == replace_global_node(Append(r1.blocks, shape), r1.roots, b1, b2)
    IN IF ShortStrips(pts)
       THEN [Entered(r2.blocks, r2.roots, FALSE) EXCEPT
               !.changed = TRUE,
               !.replaced = [old |-> branch, new |-> b2, before |-> bs]]
       ELSE IF IsNiTriStrips(blk.kind)
       THEN [Entered([bs EXCEPT ![branch] = stitched], rs, FALSE) EXCEPT
               !.changed = TRUE]
       ELSE [Entered([r1.blocks EXCEPT ![b1] = stitched], r1.roots, FALSE)
               EXCEPT !.changed = TRUE,
                      !.replaced = [old |-> branch, new |-> b1, before |-> bs]]

\* branchentry from "we found a geometry to optimize" on, with the vertex
\* map m of optimize_vertices
OptimizeWith(bs, rs, branch, m) ==
    Once({IF rw.err # NoError
          THEN \* the exception leaves the data as rewritten so far
               [Entered([bs EXCEPT ![branch] = rw.indexed], rs, FALSE) EXCEPT
                  !.changed = TRUE, !.err = rw.err]
          ELSE IF InsaneAmount(num_triangles(rw.mapped))
          THEN \* warning only: the geometry keeps its representation
               [Entered([bs EXCEPT ![branch] = rw.mapped], rs, FALSE) EXCEPT
                  !.changed = TRUE]
          ELSE Once({StripifyBranch(bs, rs, branch, rw, pts) :
                        pts \in {NewStrips(rw.mapped)}}) :
          rw \in {RewriteData(bs[branch], m)}})

\* SpellOptimizeGeometry.branchentry
OptimizeGeometryBranchentry(bs, rs, branch) ==
    LET blk == bs[branch]
    IN IF ~IsNiTriBasedGeom(blk.kind)
       THEN \* keep recursing
            Entered(bs, rs, TRUE)
       ELSE IF branch \in Range(optimized)
       THEN \* already optimized
            Entered(bs, rs, FALSE)
       ELSE IF Len(blk.vhash) < 3
       THEN \* less than 3 vertices: removing branch
            LET r == replace_global_node(bs, rs, branch, NoRef)
            IN [Entered(r.blocks, r.roots, FALSE) EXCEPT
                  !.changed = TRUE,
                  !.replaced = [old |-> branch, new |-> NoRef, before |-> bs]]
       ELSE Once({OptimizeWith(bs, rs, branch, m) :
                    m \in {UniqueMap(blk.vhash)}})

\* a plausible slip: the list of used bones is not looked at
UnreferencedBoneChildless(blk, branch) == blk.children = <<>>

\* not branch.children and branch not in self._used_bones
UnreferencedBone(blk, branch) ==
    blk.children = <<>> /\ branch \notin used_bones

\* SpellDelUnusedBones.branchentry
DelUnusedBonesBranchentry(bs, rs, branch) ==
    IF IsNiNode(bs[branch].kind) /\ UnreferencedBone(bs[branch], branch)
    THEN \* removing unreferenced bone
         LET r == replace_global_node(bs, rs, branch, NoRef)
         IN [Entered(r.blocks, r.roots, FALSE) EXCEPT
               !.changed = TRUE,
               !.replaced = [old |-> branch, new |-> NoRef, before |-> bs]]
    ELSE Entered(bs, rs, TRUE)

Branchentry(bs, rs, branch) ==
    CASE spell = "opt_cleanreflists" -> CleanRefListsBranchentry(bs, rs, branch)
      [] spell = "opt_mergeduplicates" ->
            MergeDuplicatesBranchentry(bs, rs, branch)
      [] spell = "opt_geometry" -> OptimizeGeometryBranchentry(bs, rs, branch)
      [] spell = "opt_delunusedbones" ->
            DelUnusedBonesBranchentry(bs, rs, branch)

\* the toaster casts the spell: datainspect, then dataentry
CastSpell ==
    /\ pc = "cast"
    /\ IF ~Datainspect
       THEN /\ pc' = "skipped"
            /\ UNCHANGED <<roots, stack, changed>>
       ELSE LET rs == IF spell = "opt_cleanreflists"
                      THEN cleanreflist(roots) ELSE roots
            IN /\ roots' = rs
               /\ changed' = \/ changed
                              \/ /\ spell = "opt_cleanreflists"
                                 /\ cleanreflistSetsChanged(roots)
               /\ stack' = SelectSeq(rs, LAMBDA r : r # NoRef)
               /\ pc' = "recurse"
    /\ used_bones' = IF spell = "opt_delunusedbones" /\ Datainspect
                      THEN UsedBones(blocks, roots) ELSE used_bones
    /\ UNCHANGED <<blocks, block_list, bi, optimized_geometries, replaced,
                   raised, header, sidecar, precisions, keys, new_keys,
                   spell, visited, branches, optimized, run, input, mapVars,
                   moppVars>>

\* Spell.recurse(branch) for the next branch of the recursion
VisitBranch ==
    /\ pc = "recurse"
    /\ stack # <<>>
    /\ LET branch == Head(stack)
           rest == Tail(stack)
           e == Branchentry(blocks, roots, branch)
       IN IF ~Branchinspect(blocks[branch].kind)
          THEN /\ stack' = rest
               /\ replaced' = NotReplaced
               /\ UNCHANGED <<pc, blocks, roots, changed, branches, visited,
                              raised>>
          ELSE /\ blocks' = e.blocks
               /\ roots' = e.roots
               /\ changed' = (changed \/ e.changed)
               /\ branches' = e.branches
               /\ replaced' = e.replaced
               /\ visited' = Append(visited, branch)
               /\ raised' = e.err
               /\ pc' = IF e.err # NoError THEN "raised" ELSE pc
               /\ stack' =
                    IF e.recurse
                    THEN RefSeq(e.blocks[branch]) \o rest
                    ELSE IF e.replaced.old # NoRef
                    THEN Repointed(rest, e.replaced.old, e.replaced.new)
                    ELSE rest
    /\ UNCHANGED <<block_list, bi, optimized_geometries, header, sidecar,
                   precisions, used_bones, keys, new_keys, spell, optimized,
                   run, input, mapVars, moppVars>>

\* the recursion is over
CastDone ==
    /\ pc = "recurse"
    /\ stack = <<>>
    /\ pc' = "done"
    /\ replaced' = NotReplaced
    /\ UNCHANGED <<blocks, roots, block_list, bi, optimized_geometries,
                   raised, spellVars, mapVars, moppVars>>

\* a new instance of the spell is cast on the document it has left
CastAgain ==
    /\ pc \in {"done", "skipped"}
    /\ run = 1
    /\ input' = [blocks |-> blocks, roots |-> roots]
    /\ run' = 2
    /\ changed' = FALSE
    /\ visited' = <<>>
    /\ branches' = <<>>
    /\ optimized' = <<>>
    /\ pc' = "cast"
    /\ UNCHANGED <<blocks, roots, block_list, bi, optimized_geometries,
                   replaced, raised, header, sidecar, precisions, used_bones,
                   keys, new_keys, spell, stack, mapVars, moppVars>>

(***************************************************************************)
(* The documents of the merge: a root node (1) over two shapes (2, 3),     *)
(* each with a property or a source texture (4, 5) that may carry a        *)
(* controller (6, 7), and a mesh emitter (8) that the root may own.        *)
(***************************************************************************)
NumHashes == 2

Triangle == [Block("NiTriShape") EXCEPT !.vhash = <<1, 2, 3>>,
                                        !.tris = <<<<0, 1, 2>>>>]

\* a shape that holds the blocks of list as properties or as textures
ShapeWith(h, pk, list) ==
    [Triangle EXCEPT !.hash = h,
                     !.properties = IF IsNiProperty(pk) THEN list ELSE <<>>,
                     !.owned = IF IsNiProperty(pk) THEN <<>> ELSE list]

MergeDocs ==
    {<<[Block("NiNode") EXCEPT !.children = ch,
                               !.owned = IF em THEN <<8>> ELSE <<>>],
       ShapeWith(1, pk, <<4>>),
       ShapeWith(g3, pk, list),
       [Block(pk) EXCEPT !.hash = 1,
                         !.controller = IF c4 THEN 6 ELSE NoRef],
       [Block(pk) EXCEPT !.hash = h5,
                         !.controller = IF c5 THEN 7 ELSE NoRef],
       [Block("NiTimeController") EXCEPT !.target = 4],
       [Block("NiTimeController") EXCEPT !.target = 5],
       [Block("NiPSysMeshEmitter") EXCEPT !.meshes = <<2>>]>> :
        ch \in {<<2, 3>>, <<2, 0, 3>>, <<2, 3, 2>>},
        em \in BOOLEAN,
        pk \in {"NiMaterialProperty", "BSShaderProperty", "NiSourceTexture"},
        g3 \in 1..NumHashes,
        list \in {<<5>>, <<5, 0, 5>>, <<4>>},
        h5 \in 1..NumHashes,
        c4 \in BOOLEAN,
        c5 \in BOOLEAN}

\* a cast that has not begun
InitCast ==
    /\ pc = "cast"
    /\ stack = <<>>
    /\ visited = <<>>
    /\ branches = <<>>
    /\ optimized = <<>>
    /\ changed = FALSE
    /\ run = 1
    /\ input = [blocks |-> blocks, roots |-> roots]
    /\ block_list = <<>>
    /\ bi = 0
    /\ optimized_geometries = <<>>
    /\ replaced = NotReplaced
    /\ raised = NoError
    /\ IdleMap
    /\ IdleMopp

InitMerge ==
    /\ blocks \in MergeDocs
    /\ roots \in {<<1>>, <<1, 0, 1>>}
    /\ header \in {"types", "notypes"}
    /\ sidecar = FALSE
    /\ precisions = ClassPrecisions
    /\ used_bones = {}
    /\ keys = <<>>
    /\ new_keys = <<>>
    /\ spell \in {"opt_cleanreflists", "opt_mergeduplicates"}
    /\ InitCast

NextMerge == CastSpell \/ VisitBranch \/ CastDone

SpecMerge == InitMerge /\ [][NextMerge]_vars

\* the documents of the geometry spell: a root node with a controller (4)
\* over two geometries (2, 3)
GeomDocs ==
    {<<[Block("NiNode") EXCEPT !.children = ch, !.controller = 4], g, h,
       [Block("NiTimeController") EXCEPT !.target = 1]>> :
        ch \in {<<2>>, <<2, 3>>, <<3, 2, 3>>},
        g \in Geoms, h \in SmallGeoms}

InitGeom ==
    /\ blocks \in GeomDocs
    /\ roots = <<1>>
    /\ header \in {"types", "notypes"}
    /\ sidecar \in BOOLEAN
    /\ precisions = ClassPrecisions
    /\ used_bones = {}
    /\ keys = <<>>
    /\ new_keys = <<>>
    /\ spell = "opt_geometry"
    /\ InitCast

NextGeom == CastSpell \/ VisitBranch \/ CastDone \/ CastAgain

SpecGeom == InitGeom /\ [][NextGeom]_vars

(***************************************************************************)
(* Claims about the spells.                                                *)
(***************************************************************************)

\* C8 as stated: a candidate block that carries a controller is never
\* replaced by an earlier block in merge-duplicates, even when the two are
\* structurally interchangeable.
C8_ControllerNeverMerged ==
    (spell = "opt_mergeduplicates" /\ replaced.old # NoRef) =>
        replaced.before[replaced.old].controller = NoRef

\* C8: a candidate property block (NiProperty) that carries a controller is
\* never replaced by an earlier block in merge-duplicates, even when the two
\* are interchangeable: it joins the visited branches and stays in place.
C8_PropertyWithControllerNeverMerged ==
    spell = "opt_mergeduplicates" =>
        /\ replaced.old # NoRef =>
              ~(/\ IsNiProperty(replaced.before[replaced.old].kind)
                /\ replaced.before[replaced.old].controller # NoRef)
        /\ \A b \in Range(visited) :
              (IsNiProperty(blocks[b].kind) /\ blocks[b].controller # NoRef)
                  => b \in Range(branches)

\* the second material property, with a controller, was visited after the
\* first, which it is interchangeable with, and was kept
C8_Witness ==
    /\ spell = "opt_mergeduplicates"
    /\ pc = "done"
    /\ blocks[5].kind = "NiMaterialProperty"
    /\ blocks[5].controller # NoRef
    /\ is_interchangeable(blocks, 5, 4)
    /\ \E i, j \in 1..Len(branches) :
          i < j /\ branches[i] = 4 /\ branches[j] = 5
    /\ 5 \in Range(blocks[3].properties)

\* the document held a mesh emitter when the cast began
HadMeshEmitter ==
    \E b \in Range(TreeAll(input.blocks, input.roots)) :
        IsNiPSysMeshEmitter(input.blocks[b].kind)

\* the cast has visited nothing and changed nothing
NoOp ==
    /\ visited = <<>>
    /\ blocks = input.blocks
    /\ roots = input.roots
    /\ changed = FALSE

\* C9 as stated: on a document that contains a mesh-particle-emitter block,
\* merge-duplicates and the reference-list cleanup perform no visit and no
\* mutation at all; the graph is unchanged and the changed flag stays false.
C9_EmitterDisablesMerge ==
    (spell \in {"opt_mergeduplicates", "opt_cleanreflists"} /\ HadMeshEmitter)
        => NoOp

\* C9: on a document whose header reports a mesh-particle-emitter block
\* type, merge-duplicates and the reference-list cleanup perform no visit and
\* no mutation at all; the graph is unchanged and the changed flag stays
\* false.
C9_ReportedEmitterDisablesMerge ==
    (/\ spell \in {"opt_mergeduplicates", "opt_cleanreflists"}
     /\ HadMeshEmitter
     /\ header = "types")
        => (NoOp /\ pc \in {"cast", "skipped"})

\* the merge was skipped on a document with a duplicate property to merge
C9_Witness ==
    /\ spell = "opt_mergeduplicates"
    /\ pc = "skipped"
    /\ HadMeshEmitter
    /\ blocks[4].controller = NoRef
    /\ 5 \in Range(blocks[3].properties)
    /\ is_interchangeable(blocks, 5, 4)

\* the vertex count and the index lists of the geometries of a document
GeometryLists(bs, rs) ==
    LET g == SelectSeq(TreeAll(bs, rs),
                       LAMBDA b : IsNiTriBasedGeom(bs[b].kind))
    IN [k \in 1..Len(g) |->
          <<Len(bs[g[k]].vhash), bs[g[k]].tris, bs[g[k]].points>>]

\* C10: casting optimize-geometry a second time on its own output changes
\* nothing: same vertex counts, same index lists, changed flag false.
C10_OptimizeGeometryIdempotent ==
    (spell = "opt_geometry" /\ run = 2 /\ pc \in {"done", "skipped"}) =>
        /\ GeometryLists(blocks, roots)
              = GeometryLists(input.blocks, input.roots)
        /\ changed = FALSE
(***************************************************************************)
(* Claims about the numeric validation of updateMopp.                      *)
(***************************************************************************)

\* some axis of the quantized upper bound is negative
BelowRange(q) == \E a \in 1..3 : q[a] < 0

\* some axis of the quantized upper bound is above 255
AboveRange(q) == \E a \in 1..3 : q[a] > 255

\* C13: when the quantized upper bound of the shape lies outside [0, 255]
\* on any axis, updateMopp is rejected with a validation error ("invalid
\* origin" when an axis is negative, "invalid scale" when an axis is above
\* 255 and none is negative), and the stored bytecode and its size are
\* left as they were.
C13_InvalidBoundsRejected ==
    [][(pc = "shape" /\ (BelowRange(qmax) \/ AboveRange(qmax))) =>
          /\ pc' = "rejected"
          /\ raised'.type = "ValueError"
          /\ BelowRange(qmax) =>
                raised'.msg = "cannot update mopp tree with invalid origin"
          /\ (AboveRange(qmax) /\ ~BelowRange(qmax)) =>
                raised'.msg = "cannot update mopp tree with invalid scale"
          /\ moppData' = moppData
          /\ moppDataSize' = moppDataSize]_vars

\* an update rejected for its scale, the earlier tree still stored
C13_Witness ==
    /\ pc = "rejected"
    /\ AboveRange(qmax) /\ ~BelowRange(qmax)
    /\ raised.msg = "cannot update mopp tree with invalid scale"
    /\ Len(moppData) > 1
    /\ moppData \in OldBlobs
(***************************************************************************)
(* Claims about the opcodes of parseMopp.  They are stated for the decode   *)
(* the shape has run, from offset 0 with triangle offset 0, and for a      *)
(* decode started at any later offset s of the loaded bytecode with an     *)
(* accumulated triangle offset of 3.                                       *)
(***************************************************************************)
ProbeOffsets(s) == IF s = 0 THEN {0} ELSE {3}

\* mopp[j]
MoppByte(j) == moppData[j + 1]

\* the instruction at s has its k bytes inside the array
Complete(s, k) == s + k <= Len(moppData)

\* the result of parseMopp(start = s, toffset = t)
Decode(s, t) ==
    IF s = 0 /\ t = 0 THEN parsed
    ELSE parseMopp(moppData, moppDataSize, s, 0, t)

\* the decode at s is the k bytes of a branch followed by the decode at a
\* and then the decode at b, both with the triangle offset t of the branch
\* point, and nothing else; an exception of a side is the exception of the
\* whole
IsBranchOf(s, k, a, b, t) ==
    LET P == Decode(s, t)
        T == parseMopp(moppData, moppDataSize, a, 1, t)
        E == parseMopp(moppData, moppDataSize, b, 1, t)
    IN IF T.status # "ok" THEN P.status = T.status
       ELSE IF E.status # "ok" THEN P.status = E.status
       ELSE /\ P.status = "ok"
            /\ P.ids = Run(s, k) \o T.ids \o E.ids
            /\ P.tris = T.tris \o E.tris
            /\ P.printed = <<s>> \o T.printed \o E.printed

\* the two families of branches with a 1-byte displacement
ByteBranches(s, t) ==
    /\ (MoppByte(s) \in Branch2Codes /\ Complete(s, 4)) =>
            IsBranchOf(s, 4, s + 4, s + 4 + MoppByte(s + 3), t)
    /\ (MoppByte(s) \in Branch1Codes /\ Complete(s, 3)) =>
            IsBranchOf(s, 3, s + 3, s + 3 + MoppByte(s + 2), t)

\* the two 2-byte displacements of a branch of the third family
Jump1(s) == MoppByte(s + 3) * 256 + MoppByte(s + 4)

Jump2(s) == MoppByte(s + 5) * 256 + MoppByte(s + 6)

\* C16 (as stated): for the branch opcodes of all three families the "then"
\* sub-decode starts at the byte right after the operands and the "else"
\* sub-decode at that position plus the displacement; the result is the
\* branch's own bytes plus the consumed offsets and triangles of both
\* sides, "then" before "else", and the call decodes nothing after it.
C16_BranchThenAfterOperands ==
    pc = "parsed" =>
        \A s \in 0..(Len(moppData) - 1) : \A t \in ProbeOffsets(s) :
            /\ ByteBranches(s, t)
            /\ (MoppByte(s) \in BranchShortCodes /\ Complete(s, 7)) =>
                    IsBranchOf(s, 7, s + 7, s + 7 + Jump2(s), t)

\* C16 (amended): as stated for the two families with a 1-byte
\* displacement; a branch of the 2-byte family has two displacements, its
\* "then" sub-decode starts at the position after the operands plus the
\* first and its "else" sub-decode at that position plus the second.  The
\* result is the branch's own bytes plus the consumed offsets and
\* triangles of both sides, "then" before "else", and nothing after it.
C16_BranchDecoding ==
    pc = "parsed" =>
        \A s \in 0..(Len(moppData) - 1) : \A t \in ProbeOffsets(s) :
            /\ ByteBranches(s, t)
            /\ (MoppByte(s) \in BranchShortCodes /\ Complete(s, 7)) =>
                    IsBranchOf(s, 7, s + 7 + Jump1(s), s + 7 + Jump2(s), t)

\* a decoded branch of the 2-byte family whose "then" side is displaced,
\* both sides ending in a leaf
C16_Witness ==
    /\ pc = "parsed"
    /\ parsed.status = "ok"
    /\ Complete(0, 7)
    /\ MoppByte(0) \in BranchShortCodes
    /\ Jump1(0) > 0 /\ Jump2(0) > Jump1(0)
    /\ Len(parsed.tris) = 2

\* the decode at s is the k bytes of a leaf and the one triangle tri
IsLeafOf(s, k, tri, t) ==
    LET P == Decode(s, t)
    IN /\ P.status = "ok"
       /\ P.ids = Run(s, k)
       /\ P.tris = <<tri>>
       /\ P.printed = <<s>>

\* C17: a leaf opcode (compact 0x30..0x4F, or with a 1-byte or a 2-byte
\* operand; also 0x53, whose 2-byte value follows two skipped bytes)
\* reports exactly one triangle, its leaf value plus the accumulated
\* triangle offset, and ends the decode: the call consumes the leaf's own
\* bytes and no byte after them.
C17_LeafDecoding ==
    pc = "parsed" =>
        \A s \in 0..(Len(moppData) - 1) : \A t \in ProbeOffsets(s) :
            /\ MoppByte(s) \in CompactCodes =>
                    IsLeafOf(s, 1, MoppByte(s) - TriCompactFirst + t, t)
            /\ (MoppByte(s) = 80 /\ Complete(s, 2)) =>
                    IsLeafOf(s, 2, MoppByte(s + 1) + t, t)
            /\ (MoppByte(s) = 81 /\ Complete(s, 3)) =>
                    IsLeafOf(s, 3, MoppByte(s + 1) * 256 + MoppByte(s + 2) + t, t)
            /\ (MoppByte(s) = 83 /\ Complete(s, 5)) =>
                    IsLeafOf(s, 5, MoppByte(s + 3) * 256 + MoppByte(s + 4) + t, t)

\* a leaf with an operand decoded under a raised triangle offset while
\* bytes follow it in the buffer
C17_Witness ==
    /\ pc = "parsed"
    /\ parsed.status = "ok"
    /\ Len(moppData) > 4
    /\ MoppByte(0) = 9
    /\ MoppByte(2) = 80
    /\ parsed.tris = <<MoppByte(3) + MoppByte(1)>>
    /\ parsed.ids = <<0, 1, 2, 3>>

\* the decode at s is the k bytes at s followed by the decode at next with
\* the triangle offset t2
ContinuesAs(s, k, next, t, t2) ==
    LET P == Decode(s, t)
        Q == parseMopp(moppData, moppDataSize, next, 0, t2)
    IN /\ P.status = Q.status
       /\ P.status = "ok" =>
            /\ P.ids = Run(s, k) \o Q.ids
            /\ P.tris = Q.tris

\* C18: the 1-byte and 2-byte increment opcodes add their big-endian
\* operand to the triangle-offset accumulator, the 4-byte form sets it to
\* an absolute value (the big-endian value of its last two bytes), bound
\* and jump opcodes leave it unchanged, and a branch hands the accumulator
\* of the branch point to both of its sub-decodes.
C18_OffsetAccumulator ==
    pc = "parsed" =>
        \A s \in 0..(Len(moppData) - 1) : \A t \in ProbeOffsets(s) :
            LET code == MoppByte(s)
            IN /\ (code = 9 /\ Complete(s, 2)) =>
                    ContinuesAs(s, 2, s + 2, t, t + MoppByte(s + 1))
               /\ (code = 10 /\ Complete(s, 3)) =>
                    ContinuesAs(s, 3, s + 3, t,
                                t + MoppByte(s + 1) * 256 + MoppByte(s + 2))
               /\ (code = 11 /\ Complete(s, 5)) =>
                    ContinuesAs(s, 5, s + 5, t,
                                MoppByte(s + 3) * 256 + MoppByte(s + 4))
               /\ (code \in BoundCodes /\ Complete(s, 3)) =>
                    ContinuesAs(s, 3, s + 3, t, t)
               /\ (code \in BoundXYZCodes /\ Complete(s, 4)) =>
                    ContinuesAs(s, 4, s + 4, t, t)
               /\ (code = 5 /\ Complete(s, 2)) =>
                    ContinuesAs(s, 2, s + 2 + MoppByte(s + 1), t, t)
               /\ (code = 6 /\ Complete(s, 3)) =>
                    ContinuesAs(s, 3,
                                s + 3 + MoppByte(s + 1) * 256 + MoppByte(s + 2),
                                t, t)
               /\ (code \in Branch1Codes /\ Complete(s, 3)) =>
                    IsBranchOf(s, 3, s + 3, s + 3 + MoppByte(s + 2), t)

\* an increment before a branch whose "then" side raises the offset again:
\* the "else" side still decodes under the offset of the branch point
C18_Witness ==
    /\ pc = "parsed"
    /\ parsed.status = "ok"
    /\ Complete(0, 7)
    /\ MoppByte(0) = 9
    /\ MoppByte(2) \in Branch1Codes
    /\ MoppByte(5) = 9
    /\ parsed.tris = <<MoppByte(1) + MoppByte(6), MoppByte(1) + 2>>
(***************************************************************************)
(* The documents of the reference-list cleaning: a root node (1) over two  *)
(* shapes (2, 3), the first with two properties (4, 5); the root list, the *)
(* child list and the property list hold empty and repeated references.    *)
(***************************************************************************)
MaxRefs == 4

CleanDocs ==
    {<<[Block("NiNode") EXCEPT !.children = ch],
       [Triangle EXCEPT !.properties = pl],
       Triangle,
       Block("NiMaterialProperty"),
       [Block("NiMaterialProperty") EXCEPT !.hash = 1]>> :
        ch \in SeqUpTo({NoRef, 2, 3}, MaxRefs),
        pl \in {<<4>>, <<NoRef>>, <<5, NoRef, 5, 4>>}}

InitClean ==
    /\ blocks \in CleanDocs
    /\ roots \in {<<1>>, <<NoRef>>, <<NoRef, 1, 1>>}
    /\ header \in {"types", "notypes"}
    /\ sidecar = FALSE
    /\ precisions = ClassPrecisions
    /\ used_bones = {}
    /\ keys = <<>>
    /\ new_keys = <<>>
    /\ spell = "opt_cleanreflists"
    /\ InitCast

NextClean == CastSpell \/ VisitBranch \/ CastDone \/ CastAgain

SpecClean == InitClean /\ [][NextClean]_vars

\* the position of the first occurrence of ref in list
FirstIndex(list, ref) ==
    CHOOSE i \in 1..Len(list) :
        list[i] = ref /\ \A j \in 1..(i - 1) : list[j] # ref

\* new is old without its empty references and with each other reference
\* once, in the order of first occurrence; cleaning new changes nothing
IsCleaned(old, new) ==
    /\ \A i \in 1..Len(new) : new[i] # NoRef
    /\ \A i, j \in 1..Len(new) : new[i] = new[j] => i = j
    /\ Range(new) = Range(old) \ {NoRef}
    /\ \A i, j \in 1..Len(new) :
            i < j => FirstIndex(old, new[i]) < FirstIndex(old, new[j])
    /\ cleanreflist(new) = new

\* C14: a cleaned reference list (the root list after dataentry, the child
\* and property lists of a visited branch) has no empty reference and no
\* repeated reference, holds every non-empty reference of the input list,
\* in the order of first occurrence, and cleaning is idempotent: a second
\* cast of the spell changes nothing.
C14_CleanRefList ==
    /\ pc \in {"recurse", "done"} =>
        /\ IsCleaned(input.roots, roots)
        /\ \A b \in Range(visited) :
            /\ IsNiNode(blocks[b].kind) =>
                    IsCleaned(input.blocks[b].children, blocks[b].children)
            /\ IsNiAVObject(blocks[b].kind) =>
                    IsCleaned(input.blocks[b].properties,
                              blocks[b].properties)
    /\ (run = 2 /\ pc = "done") =>
        /\ ~changed
        /\ blocks = input.blocks
        /\ roots = input.roots

\* the spell has run over a root node whose child list held an empty
\* reference and a repeated one, and has run once more
C14_Witness ==
    /\ pc = "done"
    /\ run = 2
    /\ 1 \in Range(visited)
    /\ blocks[1].children = <<3, 2>>
    /\ blocks[2].properties = <<5, 4>>
(***************************************************************************)
(* The documents of the geometry rewrite: a root node (1) over one         *)
(* geometry (2) of three or more vertices with every per-vertex array, a   *)
(* skin and two morphs, or with vertices and one UV set only.  The         *)
(* elements of the arrays are tagged with the vertex they belong to.  The  *)
(* strips hold valid indices, or indices beyond the vertex count.          *)
(***************************************************************************)
Tagged(base, n) == [i \in 1..n |-> base + i - 1]

\* a skin of two bones: bone 0 weighs every vertex, bone 1 the odd ones
SkinFor(n) ==
    <<[i \in 1..n |-> <<i - 1, 10 + i>>],
      SelectSeq([i \in 1..n |-> <<i - 1, 20 + i>>], LAMBDA e : e[1] % 2 = 1)>>

WithArrays(g, attrs) ==
    LET n == Len(g.vhash)
    IN IF attrs = "all"
       THEN [g EXCEPT !.has_vertices = TRUE, !.vertices = Tagged(100, n),
                      !.has_normals = TRUE, !.normals = Tagged(200, n),
                      !.uv_sets = <<Tagged(300, n), Tagged(400, n)>>,
                      !.has_vertex_colors = TRUE,
                      !.vertex_colors = Tagged(500, n),
                      !.skin = TRUE, !.bone_list = SkinFor(n),
                      !.morphs = <<Tagged(600, n), Tagged(700, n)>>]
       ELSE [g EXCEPT !.has_vertices = TRUE, !.vertices = Tagged(100, n),
                      !.uv_sets = <<Tagged(300, n)>>]

\* the strips of a geometry of n vertices: sound, or with a bad index at
\* the start, in the middle, twice at the start, or alone in its strip
StripSets(n) ==
    {<<<<0, 1, 2, n - 1>>>>,
     <<<<n, n - 1, 0, 1>>>>,
     <<<<0, n + 5, 1, 2>>>>,
     <<<<n, n + 1, 0>>>>,
     <<<<0, 1, 2>>, <<n>>>>}

RewriteGeoms ==
    UNION {{[Block("NiTriShape") EXCEPT
                !.vhash = h, !.tris = <<<<0, 1, 2>>, <<1, 2, Len(h) - 1>>>>]}
            \cup {[Block("NiTriStrips") EXCEPT !.vhash = h, !.points = p] :
                    p \in StripSets(Len(h))} :
           h \in {hs \in SeqUpTo(Keys, MaxLen) : Len(hs) >= 3}}

RewriteDocs ==
    {<<[Block("NiNode") EXCEPT !.children = <<2>>], WithArrays(g, attrs)>> :
        g \in RewriteGeoms, attrs \in {"all", "plain"}}

InitRewrite ==
    /\ blocks \in RewriteDocs
    /\ roots = <<1>>
    /\ header = "types"
    /\ sidecar = FALSE
    /\ precisions = ClassPrecisions
    /\ used_bones = {}
    /\ keys = <<>>
    /\ new_keys = <<>>
    /\ spell = "opt_geometry"
    /\ InitCast

NextRewrite == CastSpell \/ VisitBranch \/ CastDone

SpecRewrite == InitRewrite /\ [][NextRewrite]_vars

(***************************************************************************)
(* Claims about the rewrite of a geometry.  Block 2 is the geometry of the *)
(* document; its data is rewritten in place, and the blocks that take its  *)
(* place in the document are added after the blocks of the input.          *)
(***************************************************************************)

\* branchentry has run on the geometry
Rewritten == pc \in {"recurse", "done", "raised"} /\ 2 \in Range(visited)

\* every index of the triangles and strips of g
Indices(g) ==
    UNION ({Range(g.tris[k]) : k \in 1..Len(g.tris)}
            \cup {Range(g.points[k]) : k \in 1..Len(g.points)})

\* old_to_new: the new index of the vertex that had index a
OldToNew(old, new, a) == FirstIndex(new.vhash, old.vhash[a + 1]) - 1

\* new_to_representative_old: the old index of the first vertex with the
\* key of the new vertex k
Representative(old, new, k) == FirstIndex(old.vhash, new.vhash[k + 1]) - 1

GeomValid(g) ==
    LET n == Len(g.vhash)
    IN /\ \A i \in Indices(g) : i < n
       /\ g.has_vertices => Len(g.vertices) = n
       /\ g.has_normals => Len(g.normals) = n
       /\ \A j \in 1..Len(g.uv_sets) : Len(g.uv_sets[j]) = n
       /\ g.has_vertex_colors => Len(g.vertex_colors) = n
       /\ \A j \in 1..Len(g.morphs) : Len(g.morphs[j]) = n
       /\ \A b \in 1..Len(g.bone_list) : \A e \in Range(g.bone_list[b]) :
            e[1] < n

\* the element k of every per-vertex array of new is the element of old at
\* the representative of k
Gathered(old, new) ==
    \A k \in 0..(Len(new.vhash) - 1) :
        LET r == Representative(old, new, k)
        IN /\ new.has_vertices => new.vertices[k + 1] = old.vertices[r + 1]
           /\ new.has_normals => new.normals[k + 1] = old.normals[r + 1]
           /\ Len(new.uv_sets) = Len(old.uv_sets)
           /\ \A j \in 1..Len(new.uv_sets) :
                new.uv_sets[j][k + 1] = old.uv_sets[j][r + 1]
           /\ new.has_vertex_colors =>
                new.vertex_colors[k + 1] = old.vertex_colors[r + 1]
           /\ Len(new.morphs) = Len(old.morphs)
           /\ \A j \in 1..Len(new.morphs) :
                new.morphs[j][k + 1] = old.morphs[j][r + 1]
           /\ get_vertex_weights(new.bone_list, Len(new.vhash))[k + 1]
                = get_vertex_weights(old.bone_list, Len(old.vhash))[r + 1]

\* the rewritten geometry and the blocks made from it
Successors ==
    {b \in 1..Len(blocks) :
        (b = 2 \/ b > Len(input.blocks)) /\ IsNiTriBasedGeom(blocks[b].kind)}

\* C12: a geometry whose indices are all below its vertex count and whose
\* per-vertex arrays (positions, normals, each UV set, colors, morph
\* vectors, skin weights) hold exactly one element per vertex is still
\* such a geometry after the vertex dedup, with the new vertex count, and
\* the new element k of each array is the old element at
\* new_to_representative_old[k].
C12_GeometryInvariant ==
    (Rewritten /\ GeomValid(input.blocks[2])) =>
        /\ pc # "raised"
        /\ \A b \in Successors :
            /\ GeomValid(blocks[b])
            /\ Gathered(input.blocks[2], blocks[b])

\* a skinned geometry with normals, colors, two UV sets and morphs that
\* has lost a vertex which was not its last one
C12_Witness ==
    /\ pc = "done"
    /\ 2 \in Range(visited)
    /\ GeomValid(input.blocks[2])
    /\ input.blocks[2].skin /\ input.blocks[2].has_normals
    /\ Len(input.blocks[2].vhash) = 4
    /\ Len(blocks[2].vhash) = 3
    /\ blocks[2].vertices = <<100, 101, 103>>
    /\ Cardinality(Successors) > 1

\* the strips of the geometry as the update of the vertex indices leaves
\* them
RepairedStrips ==
    MapStripsFrom(input.blocks[2].points, 1,
                  UniqueMap(input.blocks[2].vhash).v_map)

\* C19: when a strip holds an index outside the old vertex range, the
\* index is replaced by the previous, already re-pointed index (or by the
\* next one at the start of a strip); afterwards every strip index is
\* below the new vertex count and no exception escapes, whatever the
\* length of the strip.
C19_StripRepair ==
    (Rewritten /\ IsNiTriStrips(input.blocks[2].kind)) =>
        /\ pc # "raised"
        /\ raised = NoError
        /\ \A k \in 1..Len(RepairedStrips.points) :
            \A i \in Range(RepairedStrips.points[k]) :
                i < Cardinality(Range(input.blocks[2].vhash))
(***************************************************************************)
(* SpellOptimizeCollisionGeometry.optimize_mopp: the vertices and the      *)
(* triangles of a packed collision shape are deduplicated and the vertex   *)
(* counts of its sub shapes are fixed.                                     *)
(***************************************************************************)

\* shape.get_triangle_hash_generator(): the corners of a triangle, whatever
\* their order
TriangleHashes(tris) == [k \in 1..Len(tris) |-> Range(tris[k])]

\* "while v_map_inverse[new_i] < old_max_index: ... new_i += 1", ended by
\* the condition or by the IndexError of new_i past the end; gives new_i
RECURSIVE IncludeFrom(_, _, _)
IncludeFrom(vmi, new_i, old_max_index) ==
    IF new_i >= Len(vmi) THEN new_i
    ELSE IF vmi[new_i + 1] < old_max_index
    THEN IncludeFrom(vmi, new_i + 1, old_max_index)
    ELSE new_i

\* "for sub_shape in shape.sub_shapes", from sub shape s on
RECURSIVE FixFrom(_, _, _, _, _)
FixFrom(sub_shapes, s, vmi, new_i, old_max_index) ==
    IF s > Len(sub_shapes) THEN sub_shapes
    ELSE LET upto == old_max_index + sub_shapes[s]
             next_i == IncludeFrom(vmi, new_i, upto)
         IN FixFrom([sub_shapes EXCEPT ![s] = next_i - new_i],
                    s + 1, vmi, next_i, upto)

\* "fix subshape counts": the quick way and the slow way
FixSubShapeCounts(sub_shapes, vmi) ==
    IF Len(sub_shapes) = 1
    THEN <<Len(vmi)>>
    ELSE FixFrom(sub_shapes, 1, vmi, 0, -1)

\* optimize_mopp up to "update mopp data and welding info", for the vertex
\* map m; a shape left with 8 vertices calls self.boxshapechecker, which
\* the class does not have
OptimizeMoppWith(blk, m) ==
    LET verts == [blk EXCEPT !.vhash = KeptVertices(@, m),
                             !.vertices = KeptVertices(@, m)]
        tris == MapTriangles(blk.tris, m.v_map)
        t == UniqueMap(TriangleHashes(tris))
    IN IF Len(m.v_map_inverse) = 8
       THEN [block |-> verts,
             err |-> [type |-> "AttributeError", msg |-> "boxshapechecker"]]
       ELSE [block |-> [verts EXCEPT
                          !.tris = KeptVertices(tris, t),
                          !.sub_shapes =
                              FixSubShapeCounts(@, m.v_map_inverse)],
             err |-> NoError]

optimize_mopp(blk) ==
    Once({OptimizeMoppWith(blk, m) : m \in {UniqueMap(blk.vhash)}})

\* optimize_mopp(branch) of branchentry on the shape, block 1
OptimizeMopp ==
    /\ pc = "collision"
    /\ LET r == optimize_mopp(blocks[1])
       IN /\ blocks' = [blocks EXCEPT ![1] = r.block]
          /\ raised' = r.err
          /\ pc' = IF r.err = NoError THEN "optimized" ELSE "raised"
    /\ UNCHANGED <<roots, block_list, bi, optimized_geometries, replaced,
                   spellVars, mapVars, moppVars>>

MaxSubShapes == 3

\* the ways to split n vertices over at most MaxSubShapes sub shapes
SubShapeCounts(n) ==
    {c \in SeqUpTo(1..n, MaxSubShapes) : c # <<>> /\ SumSeq(c) = n}

MaxPacked == 9

\* vertex keys of larger shapes: n vertices whose keys repeat after the
\* first m, so that m (or n, if fewer) vertices survive
PackedHashes ==
    {[k \in 1..n |-> ((k - 1) % m) + 1] :
        n \in (MaxPacked - 2)..MaxPacked, m \in (MaxPacked - 3)..MaxPacked}

\* a packed shape of three or more vertices, with a repeated triangle
CollisionDocs ==
    UNION {{<<[Block("bhkMoppBvTreeShape") EXCEPT
                  !.vhash = h, !.vertices = Tagged(100, Len(h)),
                  !.tris = <<<<0, 1, 2>>, <<1, 2, Len(h) - 1>>, <<0, 1, 2>>>>,
                  !.sub_shapes = c]>> : c \in SubShapeCounts(Len(h))} :
           h \in {hs \in SeqUpTo(Keys, MaxLen) : Len(hs) >= 3}
                    \cup PackedHashes}

InitCollision ==
    /\ blocks \in CollisionDocs
    /\ roots = <<1>>
    /\ pc = "collision"
    /\ block_list = <<>>
    /\ bi = 0
    /\ optimized_geometries = <<>>
    /\ replaced = NotReplaced
    /\ raised = NoError
    /\ header = "types"
    /\ sidecar = FALSE
    /\ precisions = ClassPrecisions
    /\ used_bones = {}
    /\ keys = <<>>
    /\ new_keys = <<>>
    /\ spell = "opt_collisiongeometry"
    /\ stack = <<>>
    /\ visited = <<>>
    /\ branches = <<>>
    /\ optimized = <<>>
    /\ changed = FALSE
    /\ run = 1
    /\ input = [blocks |-> blocks, roots |-> roots]
    /\ IdleMap
    /\ IdleMopp

NextCollision == OptimizeMopp

SpecCollision == InitCollision /\ [][NextCollision]_vars

\* the old vertex indices of sub shape s
OldRange(sub_shapes, s) ==
    LET first == SumSeq(SubSeq(sub_shapes, 1, s - 1))
    IN first..(first + sub_shapes[s] - 1)

\* C20: after the dedup of a collision shape with two or more sub shapes,
\* the vertex count of each sub shape is the number of surviving vertices
\* whose representative old index lies in the old range of that sub shape,
\* and the counts add up to the new vertex total; with exactly one sub
\* shape its count is the new vertex total.
C20_SubShapeCounts ==
    pc = "optimized" =>
        LET old == input.blocks[1]
            new == blocks[1]
            n == Len(new.vhash)
        IN /\ Len(new.sub_shapes) = Len(old.sub_shapes)
           /\ Len(old.sub_shapes) = 1 => new.sub_shapes[1] = n
           /\ Len(old.sub_shapes) >= 2 =>
                /\ \A s \in 1..Len(old.sub_shapes) :
                     new.sub_shapes[s] =
                        Cardinality({k \in 0..(n - 1) :
                            Representative(old, new, k)
                                \in OldRange(old.sub_shapes, s)})
                /\ SumSeq(new.sub_shapes) = n
(***************************************************************************)
(* The vertex hasher and its precision.                                    *)
(* A coordinate is held as a whole number of 10^-7 units, so that its      *)
(* first seven decimals are exact: the sixth decimal is the tens digit and *)
(* the first five decimals are the digits above it.                        *)
(* get_vertex_hash_generator yields for every vertex the tuple of its      *)
(* coordinates, each multiplied by 10 ** vertexprecision and rounded to    *)
(* the nearest integer, halves away from zero.                             *)
(***************************************************************************)

\* int(value + 0.5) if value > 0 else int(value - 0.5), value = num / den
float_to_int(num, den) ==
    IF num > 0
    THEN (2 * num + den) \div (2 * den)
    ELSE -((den - 2 * num) \div (2 * den))

\* c * 10^-7 times 10 ** precision is c / 10 ** (7 - precision)
VertexFactorDen(precision) == 10^(7 - precision)

VertexHash(v, precision) ==
    [k \in 1..Len(v) |-> float_to_int(v[k], VertexFactorDen(precision))]

get_vertex_hash_generator(data, vertexprecision) ==
    [i \in 1..Len(data.vertices) |->
        VertexHash(data.vertices[i], vertexprecision)]

\* a plausible slip: the vertices are hashed with the precision of the uvs
vertexprecisionIsUV(p) == p.UVPRECISION

\* the keyword argument vertexprecision=self.VERTEXPRECISION
vertexprecision(p) == p.VERTEXPRECISION

\* max(precision, 0)
Max0(precision) == IF precision > 0 THEN precision ELSE 0

\* toaster.options["arg"]: empty, or the text of a number
Args == {<<>>, <<-1>>, <<3>>, <<6>>}

\* the coordinates tried: sign, first five decimals, sixth, seventh
FirstFive == {0, 49, 50, 12345}

Sixth == {0, 4, 5, 9}

Seventh == {0, 5}

Coords ==
    {s * (f * 100 + d * 10 + e) :
        s \in {1, -1}, f \in FirstFive, d \in Sixth, e \in Seventh}

\* a vertex whose coordinate on one axis is c
OnAxis(axis, c) == [<<5000, -12345, 0>> EXCEPT ![axis] = c]

HashGeoms ==
    {[Block("NiTriShape") EXCEPT
         !.has_vertices = TRUE,
         !.vertices = <<OnAxis(axis, a), OnAxis(axis, b)>>] :
     axis \in 1..3, a \in Coords, b \in Coords}

InitHash ==
    /\ \E g \in HashGeoms : blocks = <<g>>
    /\ roots = <<1>>
    /\ header = "types"
    /\ sidecar = FALSE
    /\ precisions = ClassPrecisions
    /\ used_bones = {}
    /\ keys = <<>>
    /\ new_keys = <<>>
    /\ spell \in {"opt_geometry", "opt_reducegeometry"}
    /\ pc = IF spell = "opt_reducegeometry" THEN "toast" ELSE "hash"
    /\ stack = <<>>
    /\ visited = <<>>
    /\ branches = <<>>
    /\ optimized = <<>>
    /\ changed = FALSE
    /\ run = 1
    /\ input = [blocks |-> blocks, roots |-> roots]
    /\ block_list = <<>>
    /\ bi = 0
    /\ optimized_geometries = <<>>
    /\ replaced = NotReplaced
    /\ raised = NoError
    /\ IdleMap
    /\ IdleMopp

\* SpellReduceGeometry.toastentry: the argument sets the precisions
toastentry ==
    /\ pc = "toast"
    /\ \E arg \in Args :
         IF arg = <<>>
         THEN /\ pc' = "refused"
              /\ UNCHANGED precisions
         ELSE /\ pc' = "hash"
              /\ precisions' = [VERTEXPRECISION |-> arg[1],
                                NORMALPRECISION |-> Max0(arg[1]),
                                UVPRECISION |-> Max0(arg[1]),
                                VCOLPRECISION |-> Max0(arg[1])]
    /\ UNCHANGED <<mapVars, moppVars, graphVars, raised, header, sidecar,
                   used_bones, keys, new_keys, spell, stack, visited,
                   branches, optimized, changed, run, input>>

\* optimize_vertices: unique_map(data.get_vertex_hash_generator(...)) begins
optimize_vertices ==
    /\ pc = "hash"
    /\ hashes' = get_vertex_hash_generator(blocks[1],
                                           vertexprecision(precisions))
    /\ pos' = 0
    /\ v_map' = ScanStart(Len(hashes')).v_map
    /\ v_map_inverse' = <<>>
    /\ k_map' = <<>>
    /\ index' = 0
    /\ pc' = "scan"
    /\ UNCHANGED <<moppVars, graphVars, spellVars, raised>>

NextHash == toastentry \/ optimize_vertices \/ ScanVertex \/ ScanDone

SpecHash == InitHash /\ [][NextHash]_vars

\* the magnitude of a coordinate
Magnitude(c) == IF c < 0 THEN -c ELSE c

\* two coordinates differ only in the sixth decimal place
SixthOnly(a, b) ==
    /\ a # b
    /\ (a >= 0) = (b >= 0)
    /\ Magnitude(a) \div 100 = Magnitude(b) \div 100
    /\ Magnitude(a) % 10 = Magnitude(b) % 10

\* the two vertices differ only in the sixth decimal place of a coordinate
NearDuplicates(vs) ==
    \E axis \in 1..3 :
        /\ SixthOnly(vs[1][axis], vs[2][axis])
        /\ \A k \in (1..3) \ {axis} : vs[1][k] = vs[2][k]

\* C15: once the duplicate scan is over, two vertices that differ only in
\* the sixth decimal place of a coordinate have equal keys and are merged
\* into one vertex when VERTEXPRECISION is 3, and have distinct keys and are
\* kept apart when VERTEXPRECISION is 6.
C15_DedupPrecision ==
    (pc = "mapped" /\ NearDuplicates(blocks[1].vertices)) =>
        /\ precisions.VERTEXPRECISION = 3 =>
              /\ hashes[1] = hashes[2]
              /\ v_map[1] = v_map[2]
              /\ index = 1
        /\ precisions.VERTEXPRECISION = 6 =>
              /\ hashes[1] # hashes[2]
              /\ v_map[1] # v_map[2]
              /\ index = 2

\* near-duplicates across a rounding boundary of the third decimal are
\* hashed at precision 6 and kept apart
C15_Witness ==
    /\ pc = "mapped"
    /\ NearDuplicates(blocks[1].vertices)
    /\ precisions.VERTEXPRECISION = 6
    /\ blocks[1].vertices[1][1] = -5045
    /\ blocks[1].vertices[2][1] = -5095
    /\ index = 2
(***************************************************************************)
(* Claims about the survivor of a merge.                                   *)
(***************************************************************************)

\* the branch that Spell.recurse is about to enter in merge-duplicates
Candidate == Head(stack)

MergeVisit ==
    /\ spell = "opt_mergeduplicates"
    /\ pc = "recurse"
    /\ stack # <<>>
    /\ Branchinspect(blocks[Candidate].kind)

\* the positions of the recorded blocks the candidate is interchangeable with
Matches ==
    {k \in 1..Len(branches) :
        /\ branches[k] # Candidate
        /\ is_interchangeable(blocks, Candidate, branches[k])}

Earliest == branches[CHOOSE k \in Matches : \A j \in Matches : k <= j]

\* list new is list old with every c redirected to e
RedirectedList(old, new, c, e) ==
    /\ Len(new) = Len(old)
    /\ \A i \in 1..Len(old) : new[i] = IF old[i] = c THEN e ELSE old[i]

\* every reference to c held by block b is redirected to e in block nb
RedirectedBlock(b, nb, c, e) ==
    /\ RedirectedList(b.children, nb.children, c, e)
    /\ RedirectedList(b.properties, nb.properties, c, e)
    /\ RedirectedList(b.owned, nb.owned, c, e)
    /\ RedirectedList(b.objs, nb.objs, c, e)
    /\ RedirectedList(b.meshes, nb.meshes, c, e)
    /\ RedirectedList(<<b.controller, b.target>>,
                      <<nb.controller, nb.target>>, c, e)

\* C21: when the visited candidate is interchangeable with a block recorded
\* earlier and is not in an excluded family, every reference to it is
\* redirected to the earliest such block, the changed flag is set, the
\* candidate is not recorded and its subtree is not descended into; a
\* candidate with no match is recorded and the recursion continues into it.
C21_MergeSurvivorship ==
    [][MergeVisit =>
         IF Matches # {} /\ ~MergeSkips(blocks[Candidate])
         THEN /\ \A b \in Range(TreeAll(blocks, roots)) :
                    RedirectedBlock(blocks[b], blocks'[b], Candidate, Earliest)
              /\ RedirectedList(roots, roots', Candidate, Earliest)
              /\ Candidate \notin Range(TreeAll(blocks', roots'))
              /\ changed'
              /\ branches' = branches
              /\ RedirectedList(Tail(stack), stack', Candidate, Earliest)
         ELSE /\ branches' = Append(branches, Candidate)
              /\ stack' = RefSeq(blocks[Candidate]) \o Tail(stack)
              /\ blocks' = blocks
              /\ roots' = roots
              /\ changed' = changed]_vars

\* the second property has been redirected to the first, which it is
\* interchangeable with, and was not recorded
C21_Witness ==
    /\ spell = "opt_mergeduplicates"
    /\ replaced.old = 5
    /\ replaced.new = 4
    /\ 5 \in Range(replaced.before[3].properties)
    /\ 5 \notin Range(blocks[3].properties)
    /\ 4 \in Range(blocks[3].properties)
    /\ 4 \in Range(branches)
    /\ 5 \notin Range(branches)
    /\ changed
(***************************************************************************)
(* The documents of the strip cutoff: a root node (1) and a second node    *)
(* (3) over one geometry (2), which is a strip of some length, or its      *)
(* triangles, over distinct vertices or with the last vertex a duplicate   *)
(* of the first, and whose num_triangles is what its lists hold, or is     *)
(* set to 32000, or to 32001.                                              *)
(***************************************************************************)
StripLens ==
    {3, STRIPLENCUTOFF - 1, STRIPLENCUTOFF, STRIPLENCUTOFF + 1}

\* the strip 0, 1, ..., n - 1
StripOf(n) == [k \in 1..n |-> k - 1]

\* the vertex keys: all distinct, or the last a duplicate of the first
StripKeys(n, dup) == [k \in 1..n |-> IF dup /\ k = n THEN 1 ELSE k]

\* what num_triangles counts beyond the n - 2 triangles of the lists
Declared(n, decl) ==
    CASE decl = "listed" -> 0
      [] decl = "limit" -> InsaneTriangles - (n - 2)
      [] decl = "insane" -> InsaneTriangles + 1 - (n - 2)

StripGeoms ==
    UNION {{[Block("NiTriShape") EXCEPT
                !.vhash = StripKeys(n, dup),
                !.tris = TriangulateStrip(StripOf(n)),
                !.extra_triangles = Declared(n, decl)],
            [Block("NiTriStrips") EXCEPT
                !.vhash = StripKeys(n, dup),
                !.points = <<StripOf(n)>>,
                !.extra_triangles = Declared(n, decl)],
            [Block("NiTriStrips") EXCEPT
                !.vhash = StripKeys(n, dup),
                !.points = <<StripOf(n - 1), <<n - 3, n - 2, n - 1>>>>,
                !.extra_triangles = Declared(n, decl)]} :
           n \in StripLens, dup \in BOOLEAN,
           decl \in {"listed", "limit", "insane"}}

StripDocs ==
    {<<[Block("NiNode") EXCEPT !.children = ch], g,
       [Block("NiNode") EXCEPT !.children = <<2>>]>> :
        ch \in {<<2>>, <<2, 3>>, <<3, 2>>}, g \in StripGeoms}

InitStrip ==
    /\ blocks \in StripDocs
    /\ roots = <<1>>
    /\ header = "types"
    /\ sidecar = FALSE
    /\ precisions = ClassPrecisions
    /\ used_bones = {}
    /\ keys = <<>>
    /\ new_keys = <<>>
    /\ spell = "opt_geometry"
    /\ InitCast

NextStrip == CastSpell \/ VisitBranch \/ CastDone

SpecStrip == InitStrip /\ [][NextStrip]_vars

\* Spell.recurse is about to enter a geometry that branchentry optimizes
GeometryVisit ==
    /\ spell = "opt_geometry"
    /\ pc = "recurse"
    /\ stack # <<>>
    /\ IsNiTriBasedGeom(blocks[Candidate].kind)
    /\ Candidate \notin Range(optimized)
    /\ Len(blocks[Candidate].vhash) >= 3

\* the strips that the visit recomputes for the candidate
Recomputed ==
    NewStrips(RewriteData(blocks[Candidate],
                          UniqueMap(blocks[Candidate].vhash)).mapped)

\* sum of squared strip lengths / max(1, sum of strip lengths) >= cutoff
DenseStrips(strips) ==
    LET total == SumSeq([k \in 1..Len(strips) |-> Len(strips[k])])
        squares == SumSeq([k \in 1..Len(strips) |->
                             Len(strips[k]) * Len(strips[k])])
    IN squares >= STRIPLENCUTOFF * (IF total >= 1 THEN total ELSE 1)

\* the vertex keys of the triangles of a geometry that are not degenerate
TriangleKeys(g) ==
    LET tris == IF IsNiTriStrips(g.kind) THEN Triangulate(g.points)
                ELSE g.tris
        all == {{g.vhash[tris[k][i] + 1] : i \in 1..3} : k \in 1..Len(tris)}
    IN {t \in all : Cardinality(t) = 3}

C22_WitnessInsane ==
    /\ spell = "opt_geometry"
    /\ pc = "done"
    /\ IsNiTriStrips(blocks[2].kind)
    /\ num_triangles(blocks[2]) > InsaneTriangles
    /\ Len(blocks) = 3
    /\ 2 \in Range(visited)
\* the geometry was entered before in this cast, or is the block that took
\* the place of a geometry that was optimized
AlreadyOptimized(b) ==
    \/ b \in Range(visited)
    \/ b \notin DOMAIN input.blocks

\* C23: within one cast of the geometry optimization, a geometry that is
\* reached again through another parent, as itself or as the block that
\* replaced it, is found in the list of optimized geometries: the visit
\* changes nothing in the document.
C23_OptimizeOnce ==
    [][(/\ spell = "opt_geometry"
        /\ pc = "recurse"
        /\ stack # <<>>
        /\ IsNiTriBasedGeom(blocks[Candidate].kind)
        /\ AlreadyOptimized(Candidate))
         => (blocks' = blocks /\ roots' = roots)]_vars
(***************************************************************************)
(* The documents of the unused bones: a root node (1) over three nodes     *)
(* (2, 3, 4; 4 a child of 3 in some) and a geometry (5) whose skin         *)
(* instance, when it has one, points at some of the nodes as its bones.    *)
(***************************************************************************)
BoneDocs ==
    {<<[Block("NiNode") EXCEPT !.children = ch],
       Block("NiNode"),
       [Block("NiNode") EXCEPT !.children = ch3],
       Block("NiNode"),
       [Triangle EXCEPT !.skin = sk, !.bones = bn]>> :
        ch \in {<<2, 3, 5>>, <<5, 2, 3>>, <<3, 5>>, <<2, 3, 5, 2>>, <<2, 4>>},
        ch3 \in {<<>>, <<4>>, <<0>>},
        sk \in BOOLEAN,
        bn \in {<<>>, <<2>>, <<2, 4>>, <<3>>, <<0, 4>>, <<1>>}}

InitBones ==
    /\ blocks \in BoneDocs
    /\ roots \in {<<1>>, <<2, 1>>}
    /\ header \in {"types", "notypes"}
    /\ sidecar = FALSE
    /\ precisions = ClassPrecisions
    /\ used_bones = {}
    /\ keys = <<>>
    /\ new_keys = <<>>
    /\ spell = "opt_delunusedbones"
    /\ InitCast

NextBones == CastSpell \/ VisitBranch \/ CastDone

SpecBones == InitBones /\ [][NextBones]_vars

\* the blocks of the document
Reachable(bs, rs) == Range(TreeAll(bs, rs))

\* the nodes that the skin instance of a geometry of the document, as it
\* was before the traversal, has among its bones
SkinBones ==
    {n \in Reachable(input.blocks, input.roots) :
        \E g \in Reachable(input.blocks, input.roots) :
            /\ IsNiTriBasedGeom(input.blocks[g].kind)
            /\ input.blocks[g].skin
            /\ n \in Range(input.blocks[g].bones)}

\* C24: a step of delete-unused-bones detaches no block but the node it
\* visits, and that one only if it has no children and is no bone of a
\* skin instance of the document as it was before the traversal; the
\* removal sets the changed flag and the recursion does not go on into the
\* node; a node that is a bone of some skin instance stays in the graph.
C24_DelUnusedBonesSafe ==
    [][spell = "opt_delunusedbones" =>
         LET gone == Reachable(blocks, roots) \ Reachable(blocks', roots')
         IN /\ gone # {} =>
                 /\ pc = "recurse" /\ stack # <<>>
                 /\ gone = {Candidate}
                 /\ IsNiNode(blocks[Candidate].kind)
                 /\ blocks[Candidate].children = <<>>
                 /\ Candidate \notin SkinBones
                 /\ changed'
                 /\ Len(stack') < Len(stack)
                 /\ Candidate \notin Range(stack')
            /\ SkinBones \subseteq Reachable(blocks', roots')]_vars

\* a childless node that is no bone was removed while a childless node
\* that is a bone has been visited and stays
C24_Witness ==
    /\ spell = "opt_delunusedbones"
    /\ pc = "done"
    /\ changed
    /\ input.blocks[5].skin
    /\ input.blocks[5].bones = <<2, 4>>
    /\ input.blocks[3].children = <<>>
    /\ 3 \in Reachable(input.blocks, input.roots)
    /\ 3 \notin Reachable(blocks, roots)
    /\ {2, 3} \subseteq Range(visited)
    /\ 2 \in Reachable(blocks, roots)
(***************************************************************************)
(* SpellOptimizeAnimation.optimize_keys.  A key is a record of its time,   *)
(* the type of its value and the components of the value: one for a float *)
(* and for a string, four for a Vector4 or a quaternion, three for a       *)
(* Vector3.  A component is a whole number of 10^-5 units, a string is     *)
(* the number of its word.                                                 *)
(***************************************************************************)
significance_check == 4

\* int(precision * x) with precision = 10 ** significance_check: int()
\* truncates towards zero
Quantize(x) ==
    IF x >= 0 THEN x \div 10^(5 - significance_check)
    ELSE -((-x) \div 10^(5 - significance_check))

\* what optimize_keys compares: the quantized components, or the string
Compared(key) ==
    IF key.type = "str" THEN key.value
    ELSE [c \in 1..Len(key.value) |-> Quantize(key.value[c])]

\* the loops over float and over string keys, from "for i, key" at i on
RECURSIVE ScalarKeysFrom(_, _, _)
ScalarKeysFrom(ks, i, new) ==
    IF i >= Len(ks) THEN new
    ELSE LET key == ks[i + 1]
         IN IF i = 0
            THEN ScalarKeysFrom(ks, i + 1, Append(new, key))
            ELSE IF Compared(ks[i]) # Compared(key)
            THEN ScalarKeysFrom(ks, i + 1, Append(new, key))
            ELSE IF i + 1 >= Len(ks)
            THEN \* except IndexError
                 ScalarKeysFrom(ks, i + 1, Append(new, key))
            ELSE IF Compared(ks[i + 2]) # Compared(key)
            THEN ScalarKeysFrom(ks, i + 1, Append(new, key))
            ELSE ScalarKeysFrom(ks, i + 1, new)

\* the loops over Vector4 and over Vector3 keys, with the window tempkey
RECURSIVE VectorKeysFrom(_, _, _, _)
VectorKeysFrom(ks, i, tempkey, new) ==
    IF i >= Len(ks) THEN new
    ELSE LET key == ks[i + 1]
             \* tempkey[0] = tempkey[1]; tempkey[1] = tempkey[2]
             t0 == tempkey[2]
             t1 == tempkey[3]
         IN IF i = 0
            THEN VectorKeysFrom(ks, i + 1, tempkey, Append(new, key))
            ELSE IF i + 1 >= Len(ks)
            THEN \* except IndexError
                 VectorKeysFrom(ks, i + 1, <<t0, t1, <<>>>>, Append(new, key))
            ELSE LET t2 == Compared(ks[i + 2])
                 IN VectorKeysFrom(ks, i + 1, <<t0, t1, t2>>,
                                   IF t1 # t0 \/ t1 # t2
                                   THEN Append(new, key) ELSE new)

optimize_keys(ks) ==
    IF Len(ks) < 3 THEN ks
    ELSE IF ks[1].type \in {"float", "str"}
    THEN ScalarKeysFrom(ks, 0, <<>>)
    ELSE IF ks[1].type \in {"Vector4", "Vector3"}
    THEN VectorKeysFrom(ks, 0,
                        <<Compared(ks[1]), Compared(ks[2]), Compared(ks[3])>>,
                        <<>>)
    ELSE ks

MaxKeys == 5

KeyTypes == {"float", "str", "Vector4", "Vector3", "Color4"}

\* the values tried: 0, two values that quantize to 0 as well, and 0.00012
Components == <<0, 5, -5, 12>>

\* value number c of a type
KeyValue(type, c) ==
    CASE type \in {"float", "str"} -> <<Components[c]>>
      [] type = "Vector3" -> <<Components[c], 0, 12>>
      [] OTHER -> <<0, 12, 0, Components[c]>>

InitKeys ==
    /\ \E type \in KeyTypes, vs \in SeqUpTo(1..Len(Components), MaxKeys) :
          keys = [i \in 1..Len(vs) |->
                    [time |-> i, type |-> type,
                     value |-> KeyValue(type, vs[i])]]
    /\ new_keys = <<>>
    /\ pc = "keys"
    /\ raised = NoError
    /\ header = "types"
    /\ sidecar = FALSE
    /\ precisions = ClassPrecisions
    /\ used_bones = {}
    /\ spell = "opt_optimizeanimation"
    /\ stack = <<>>
    /\ visited = <<>>
    /\ branches = <<>>
    /\ optimized = <<>>
    /\ changed = FALSE
    /\ run = 1
    /\ input = NoInput
    /\ IdleMap
    /\ IdleMopp
    /\ IdleGraph

\* new_keys = self.optimize_keys(keys)
OptimizeKeys ==
    /\ pc = "keys"
    /\ new_keys' = optimize_keys(keys)
    /\ pc' = "reduced"
    /\ UNCHANGED <<mapVars, moppVars, graphVars, raised, header, sidecar,
                   precisions, used_bones, keys, spell, stack, visited,
                   branches, optimized, changed, run, input>>

NextKeys == OptimizeKeys

SpecKeys == InitKeys /\ [][NextKeys]_vars

\* C25: optimize_keys returns an order-preserving subsequence of its input
\* that holds the first and the last key, returns fewer than 3 keys as
\* they are, and drops an interior key only if the quantized value of the
\* key equals that of its predecessor and that of its successor in the
\* input.
C25_KeyReduction ==
    pc = "reduced" =>
        /\ \A k \in 1..Len(new_keys) : new_keys[k] \in Range(keys)
        /\ \A j, k \in 1..Len(new_keys) :
              j < k => new_keys[j].time < new_keys[k].time
        /\ Len(keys) < 3 => new_keys = keys
        /\ keys # <<>> =>
              /\ new_keys # <<>>
              /\ new_keys[1] = keys[1]
              /\ new_keys[Len(new_keys)] = keys[Len(keys)]
        /\ \A i \in 2..(Len(keys) - 1) :
              keys[i] \notin Range(new_keys) =>
                  /\ Compared(keys[i]) = Compared(keys[i - 1])
                  /\ Compared(keys[i]) = Compared(keys[i + 1])

\* the claim for the float and the string keys alone
ScalarKeyReduction ==
    (keys # <<>> /\ keys[1].type \in {"float", "str"}) => C25_KeyReduction
(***************************************************************************)
(* updateOriginScale, and updateMopp on the shape it has fitted.           *)
(* Coordinates are whole numbers of tenths, so that the 0.1 and the 0.2 of *)
(* the code are 1 and 2, and the quantized bounds are exact.               *)
(***************************************************************************)

\* min([v.x for v in vertices]) for axis 1, and so on
MinCoord(vertices, axis) ==
    CHOOSE c \in {vertices[k][axis] : k \in 1..Len(vertices)} :
        \A k \in 1..Len(vertices) : c <= vertices[k][axis]

MaxCoord(vertices, axis) ==
    CHOOSE c \in {vertices[k][axis] : k \in 1..Len(vertices)} :
        \A k \in 1..Len(vertices) : c >= vertices[k][axis]

\* max([maxx-minx, maxy-miny, maxz-minz])
MaxExtent(vertices) ==
    LET ext == {MaxCoord(vertices, a) - MinCoord(vertices, a) : a \in 1..3}
    IN CHOOSE e \in ext : \A f \in ext : e >= f

\* a plausible slip: all 256 steps of the grid are used
ScaleOfFullGrid(extent) == [num |-> 256 * 10, den |-> 2 + extent]

\* (256*256*254) / (0.2 + extent), as a fraction of 256 * 256
ScaleOf(extent) == [num |-> 254 * 10, den |-> 2 + extent]

\* math.ceil(a / b) for b > 0
Ceil(a, b) == -((-a) \div b)

\* math.ceil((max + 0.1 - origin) / q) with q = 256*256 / self.scale
QuantizedMax(shape, axis) ==
    Ceil((MaxCoord(shape.vertices, axis) + 1 - shape.origin[axis])
            * shape.scale.num,
         10 * shape.scale.den)

MaxVerts == 2

Tenths == {-30, 7, 1000}

FitShapes ==
    {[Block("bhkMoppBvTreeShape") EXCEPT !.has_vertices = TRUE,
                                         !.vertices = vs] :
       vs \in {v \in SeqUpTo(Tenths \X Tenths \X Tenths, MaxVerts) : v # <<>>}}

InitFit ==
    /\ pc = "fit"
    /\ \E shape \in FitShapes : blocks = <<shape>>
    /\ roots = <<1>>
    /\ block_list = <<>>
    /\ bi = 0
    /\ optimized_geometries = <<>>
    /\ replaced = NotReplaced
    /\ numtriangles \in 1..2
    /\ qmax = <<0, 0, 0>>
    /\ moppData = <<48>>
    /\ moppDataSize = 1
    /\ parsed = NotParsed
    /\ raised = NoError
    /\ IdleMap
    /\ IdleSpell

updateOriginScale ==
    /\ pc = "fit"
    /\ blocks' = [blocks EXCEPT
                    ![1].origin = [a \in 1..3 |->
                                     MinCoord(blocks[1].vertices, a) - 1],
                    ![1].scale = ScaleOf(MaxExtent(blocks[1].vertices))]
    /\ pc' = "shape"
    /\ UNCHANGED <<roots, block_list, bi, optimized_geometries, replaced,
                   raised, mapVars, moppVars, spellVars>>

\* updateMopp, from the vertices, the origin and the scale of the shape
updateMopp ==
    /\ pc = "shape"
    /\ qmax' = [a \in 1..3 |-> QuantizedMax(blocks[1], a)]
    /\ LET e == MoppBoundsError(qmax')
       IN IF e # NoError
          THEN /\ raised' = e
               /\ pc' = "rejected"
               /\ UNCHANGED <<moppData, moppDataSize>>
          ELSE /\ moppData' = MoppScript(qmax', numtriangles)
               /\ moppDataSize' = Len(moppData')
               /\ raised' = NoError
               /\ pc' = "updated"
    /\ UNCHANGED <<numtriangles, parsed, mapVars, graphVars, spellVars>>

NextFit == updateOriginScale \/ updateMopp

SpecFit == InitFit /\ [][NextFit]_vars

\* C26: updateMopp called right after updateOriginScale on a shape with
\* vertices finds its quantized upper bound between 0 and 255 on every
\* axis, and raises neither the invalid origin nor the invalid scale error.
C26_OriginScaleFit ==
    pc \notin {"fit", "shape"} =>
        /\ pc = "updated"
        /\ raised = NoError
        /\ \A a \in 1..3 : qmax[a] >= 0 /\ qmax[a] <= 255

\* a shape 103 long on one axis and flat on another was fitted: the long
\* axis is quantized to 254 and the flat one to 1
C26_Witness ==
    /\ pc = "updated"
    /\ MaxExtent(blocks[1].vertices) = 1030
    /\ qmax[1] = 254
    /\ qmax[2] = 1
    /\ Len(moppData) > 9
\* C27: a step of the reference-list cleanup sets the changed flag if and
\* only if a list it cleans (the roots in dataentry, the properties and the
\* children in branchentry) comes back different from what it was, one
\* empty or duplicate reference at least having been dropped; otherwise
\* the flag stays as it was.
C27_ChangedFlagExact ==
    [][spell = "opt_cleanreflists" =>
         /\ (pc = "cast" /\ pc' = "recurse") =>
               /\ roots' = cleanreflist(roots)
               /\ changed' = (changed \/ roots' # roots)
               /\ (roots' # roots) =
                     (\E i \in 1..Len(roots) :
                         \/ roots[i] = NoRef
                         \/ \E j \in 1..(i - 1) : roots[j] = roots[i])
         /\ (pc = "recurse" /\ stack # <<>>) =>
               changed' =
                  \/ changed
                  \/ blocks'[Candidate].properties
                        # blocks[Candidate].properties
                  \/ blocks'[Candidate].children
                        # blocks[Candidate].children]_vars

\* a children list with a duplicate was cleaned and the flag was set by it
\* alone: the roots and the properties had nothing to drop
C27_Witness ==
    /\ spell = "opt_cleanreflists"
    /\ pc = "done"
    /\ changed
    /\ roots = input.roots
    /\ NoRef \notin Range(input.blocks[1].children)
    /\ Len(blocks[1].children) < Len(input.blocks[1].children)
    /\ \A b \in 1..Len(blocks) : blocks[b].properties = input.blocks[b].properties
(***************************************************************************)
(* The decode of a buffer taken one pass of the while loop at a time, from *)
(* any start offset: parsed holds the locals of the running call and the   *)
(* calls still to be made.                                                 *)
(***************************************************************************)

\* instructions the stepped decode's buffers are made of
PassInstr ==
    {<<49>>,                    \* 0x31: compact leaf 1
     <<5, 1>>,                  \* 0x05: byte jump over 1 byte
     <<32, 5, 0>>,              \* 0x20: branch, else where the if side is
     <<18, 5, 0, 1>>}           \* 0x12: branch, else 1 byte further

\* buffers with 2-byte jumps and displacements, an unknown byte, a missing
\* operand, and a jump far beyond the end
PassBuffers ==
    NestedBuffers \cup
    {<<35, 1, 2, 0, 0, 0, 0, 32, 0, 0, 48, 49>>,
     <<6, 0, 1, 255, 32, 1, 0, 18, 5, 0, 0, 48>>,
     <<32, 1, 0, 32, 1, 0, 32, 1, 0, 48>>,
     <<5, 200, 48>>,
     <<32, 1, 2, 9>>}

InitPass ==
    /\ pc = "parsing"
    /\ \/ \E p \in SeqUpTo(PassInstr, MaxInstr) : moppData = Flat(p)
       \/ moppData \in PassBuffers
    /\ moppDataSize = Len(moppData)
    /\ numtriangles = 0
    /\ qmax = <<0, 0, 0>>
    /\ \E start \in 0..Len(moppData) : parsed = ParseStart(start, 0, 0)
    /\ raised = NoError
    /\ IdleMap
    /\ IdleGraph
    /\ IdleSpell

\* one pass of "while i < self.moppDataSize and not ret" (or the return of
\* the running call)
ParsePassOnce ==
    /\ pc = "parsing"
    /\ parsed.status = "run"
    /\ parsed' = ParseStep(moppData, moppDataSize, parsed)
    /\ UNCHANGED <<pc, raised, moppData, moppDataSize, numtriangles, qmax,
                   mapVars, graphVars, spellVars>>

\* the outermost call has returned or raised
ParseEnds ==
    /\ pc = "parsing"
    /\ parsed.status # "run"
    /\ pc' = "parsed"
    /\ raised' = IF parsed.status = "ok" THEN NoError
                 ELSE [type |-> parsed.status, msg |-> "mopp"]
    /\ UNCHANGED <<parsed, moppData, moppDataSize, numtriangles, qmax,
                   mapVars, graphVars, spellVars>>

NextPass == ParsePassOnce \/ ParseEnds

SpecPass == InitPass /\ [][NextPass]_vars

\* the interpreter keeps running the loop
SpecPassFair == SpecPass /\ WF_vars(NextPass)

\* a pass that decoded the instruction at the cursor and goes on: the
\* cursor, and the start of a sub-decode left to be made, are at or after
\* the byte following the instruction
ForwardPass ==
    (/\ pc = "parsing"
     /\ parsed.status = "run"
     /\ parsed.i < moppDataSize
     /\ parsed'.status = "run") =>
        LET i == parsed.i
            k == Len(parsed'.ids) - Len(parsed.ids)
            n == Len(parsed.calls)
        IN /\ k >= 1
           /\ IF Len(parsed'.calls) = n + 1
              THEN \* a branch: its "if" side runs, its "else" side waits
                   /\ SubSeq(parsed'.calls, 1, n) = parsed.calls
                   /\ parsed'.i >= i + k
                   /\ parsed'.calls[n + 1].start >= i + k
                   /\ parsed'.depth = parsed.depth + 1
              ELSE IF parsed'.calls = parsed.calls
              THEN \* the same call goes on
                   /\ parsed'.i >= i + k
                   /\ parsed'.depth = parsed.depth
              ELSE \* a leaf: the call returns and a waiting one starts
                   /\ n >= 1
                   /\ parsed'.calls = SubSeq(parsed.calls, 1, n - 1)
                   /\ parsed'.i = parsed.calls[n].start

\* a call whose cursor is at or past the end returns: a waiting call
\* starts, or the decode ends
ReturningPass ==
    (/\ pc = "parsing"
     /\ parsed.status = "run"
     /\ ~(parsed.i < moppDataSize)) =>
        LET n == Len(parsed.calls)
        IN IF n = 0 THEN parsed'.status = "ok"
           ELSE /\ parsed'.calls = SubSeq(parsed.calls, 1, n - 1)
                /\ parsed'.i = parsed.calls[n].start

\* C28: for every buffer and every start offset parseMopp terminates, with
\* a result or a failure: every jump and branch target is at or after the
\* byte following the instruction, so the cursor strictly increases along
\* every decode path, and the recursion depth stays within the buffer
\* length.
C28_DecodeTerminates ==
    /\ <>(pc = "parsed" /\ parsed.status \in {"ok", "ValueError", "IndexError"})
    /\ [][ForwardPass /\ ReturningPass]_vars
    /\ [](parsed.deepest <= moppDataSize)

\* a decode from a start offset inside the buffer that ended after
\* recursing through a branch inside a branch
C28_Witness ==
    /\ pc = "parsed"
    /\ parsed.status = "ok"
    /\ parsed.deepest >= 2
    /\ parsed.printed[1] > 0
    /\ Len(parsed.tris) >= 3
\* the bytes updateMopp emits for n >= 1 triangles: three 3-byte bound
\* setters, a 5-byte branch per triangle but the last, a 2-byte offset
\* increment each time the branches have used up the 32 compact leaves,
\* and the final leaf byte
EmittedBytes(n) == 3 * 3 + 5 * (n - 1) + 2 * ((n - 1) \div CompactRange) + 1

\* how many times offset j is reported in ids
TimesConsumed(ids, j) == Cardinality({k \in 1..Len(ids) : ids[k] = j})

\* C29: for every triangle count n >= 1, decoding the bytecode written by
\* updateMopp reports every offset 0..moppDataSize-1 as consumed, each
\* exactly once, and moppDataSize is the number of bytes emitted.
C29_TrivialTreeCovered ==
    (pc \in {"updated", "roundtrip"} /\ numtriangles >= 1) =>
        /\ moppDataSize = Len(moppData)
        /\ moppDataSize = EmittedBytes(numtriangles)
        /\ pc = "roundtrip" =>
              /\ parsed.status = "ok"
              /\ Len(parsed.ids) = moppDataSize
              /\ {parsed.ids[k] : k \in 1..Len(parsed.ids)}
                    = 0..(moppDataSize - 1)

\* a tree that went through the compact leaf range twice was decoded
C29_Witness ==
    /\ pc = "roundtrip"
    /\ numtriangles > 2 * CompactRange
    /\ parsed.status = "ok"
    /\ TimesConsumed(parsed.ids, moppDataSize - 1) = 1
    /\ \E j \in 0..(moppDataSize - 2) :
          moppData[j + 1] = IncOffsetByte /\ TimesConsumed(parsed.ids, j) = 1
(***************************************************************************)
(* The invariant of a packed collision shape after optimize_mopp.          *)
(***************************************************************************)

\* every triangle index is below the vertex count, the vertex array holds
\* one vertex per distinct key of old, and no two triangles have one key
PackedInvariant(old, new) ==
    /\ \A t \in 1..Len(new.tris) : \A c \in 1..3 :
          new.tris[t][c] \in 0..(Len(new.vhash) - 1)
    /\ Len(new.vertices) = Len(new.vhash)
    /\ Range(new.vhash) = Range(old.vhash)
    /\ Len(new.vhash) = Cardinality(Range(old.vhash))
    /\ \A t, u \in 1..Len(new.tris) :
          TriangleHashes(new.tris)[t] = TriangleHashes(new.tris)[u] => t = u

\* the number of vertices that survive the dedup of the input shape
Surviving == Cardinality(Range(input.blocks[1].vhash))

\* whenever optimize_mopp returns normally the invariant holds (with 8
\* surviving vertices it never does)
ReturnedInvariant ==
    pc = "optimized" =>
        /\ Surviving # 8
        /\ PackedInvariant(input.blocks[1], blocks[1])

====
